---------------------------- MODULE Spec2Model ----------------------------
(***************************************************************************)
(* Model of the content pipeline of the site generator:                    *)
(*   generator/src/markdown.rs    (MarkdownBuilder::build, link rewriting, *)
(*                                 get_abs_path, is_url)                   *)
(*   generator/src/blog_entry.rs  (BlogEntry::new, BlogEntry::parse_path)  *)
(*   generator/src/main.rs        (PathExt::extension_is)                  *)
(*                                                                         *)
(* Text is modelled character by character: a string is a sequence of      *)
(* one-character strings, a path is the string the PathBuf holds.          *)
(***************************************************************************)
EXTENDS Integers, Sequences, FiniteSets, TLC

\* the absent value of an optional string: no string, since every element of a
\* string is a single character
NONE == <<"None">>

(***************************************************************************)
(* Characters and literals                                                 *)
(***************************************************************************)
SEP == "/"
DOT == "."
HYPHEN == "-"

Digits == {"0", "1", "2", "3", "4", "5", "6", "7", "8", "9"}

DigitVal(c) ==
    CASE c = "0" -> 0 [] c = "1" -> 1 [] c = "2" -> 2 [] c = "3" -> 3
      [] c = "4" -> 4 [] c = "5" -> 5 [] c = "6" -> 6 [] c = "7" -> 7
      [] c = "8" -> 8 [] c = "9" -> 9

DigitChar(n) ==
    CASE n = 0 -> "0" [] n = 1 -> "1" [] n = 2 -> "2" [] n = 3 -> "3"
      [] n = 4 -> "4" [] n = 5 -> "5" [] n = 6 -> "6" [] n = 7 -> "7"
      [] n = 8 -> "8" [] n = 9 -> "9"

Letters ==
    {"a", "b", "c", "d", "e", "f", "g", "h", "i", "j", "k", "l", "m", "n",
     "o", "p", "q", "r", "s", "t", "u", "v", "w", "x", "y", "z"}

EMPTY == << >>
MD == <<"m", "d">>
ROOT == <<"/">>
CUR == <<".">>
PARENT == <<".", ".">>

(***************************************************************************)
(* Generic string helpers                                                  *)
(***************************************************************************)
\* index of the first occurrence of c in s at or after position i, 0 if none
RECURSIVE IndexFrom(_, _, _)
IndexFrom(s, c, i) ==
    IF i > Len(s) THEN 0
    ELSE IF s[i] = c THEN i
    ELSE IndexFrom(s, c, i + 1)

\* index of the last occurrence of c in s at or before position i, 0 if none
RECURSIVE LastIndexFrom(_, _, _)
LastIndexFrom(s, c, i) ==
    IF i < 1 THEN 0
    ELSE IF s[i] = c THEN i
    ELSE LastIndexFrom(s, c, i - 1)

\* str::split(c): every part, empty parts included
RECURSIVE Split(_, _)
Split(s, c) ==
    LET i == IndexFrom(s, c, 1) IN
    IF i = 0 THEN <<s>>
    ELSE <<SubSeq(s, 1, i - 1)>> \o Split(SubSeq(s, i + 1, Len(s)), c)

\* as splitn, the number of parts being unlimited
SplitAll(s, c, n) == Split(s, c)

\* str::splitn(n, c): at most n parts, split at the first n-1 occurrences
RECURSIVE SplitN(_, _, _)
SplitN(s, c, n) ==
    LET i == IndexFrom(s, c, 1) IN
    IF n <= 1 \/ i = 0 THEN <<s>>
    ELSE <<SubSeq(s, 1, i - 1)>> \o SplitN(SubSeq(s, i + 1, Len(s)), c, n - 1)

IsPrefix(p, s) == Len(p) <= Len(s) /\ SubSeq(s, 1, Len(p)) = p

IsSuffix(p, s) == Len(p) <= Len(s) /\ SubSeq(s, Len(s) - Len(p) + 1, Len(s)) = p

(***************************************************************************)
(* std::path on Unix                                                       *)
(***************************************************************************)
Comp(k, s) == [kind |-> k, name |-> s]

\* the components of the parts of a path after its root
RECURSIVE CompsOf(_, _, _)
CompsOf(parts, i, hasRoot) ==
    IF i > Len(parts) THEN << >>
    ELSE LET p == parts[i]
             rest == CompsOf(parts, i + 1, hasRoot) IN
         IF p = EMPTY THEN rest
         ELSE IF p = CUR THEN
             IF i = 1 /\ ~hasRoot THEN <<Comp("CurDir", p)>> \o rest ELSE rest
         ELSE IF p = PARENT THEN <<Comp("ParentDir", p)>> \o rest
         ELSE <<Comp("Normal", p)>> \o rest

\* Path::components
Components(path) ==
    LET hasRoot == Len(path) > 0 /\ path[1] = SEP IN
    IF hasRoot
    THEN <<Comp("RootDir", ROOT)>> \o CompsOf(Split(Tail(path), SEP), 1, TRUE)
    ELSE CompsOf(Split(path, SEP), 1, FALSE)

\* the path string a sequence of components stands for.  std::path hands out
\* slices of the original string; the two agree on the paths met here, which
\* have no doubled separator and no inner "." once they are taken apart: the
\* document paths of the directory walk and the results of try_normalize
RECURSIVE AsPath(_)
AsPath(comps) ==
    IF comps = << >> THEN EMPTY
    ELSE LET h == Head(comps)
             t == AsPath(Tail(comps)) IN
         IF h.kind = "RootDir" THEN ROOT \o t
         ELSE IF Tail(comps) = << >> THEN h.name
         ELSE h.name \o ROOT \o t

\* Path::is_absolute
IsAbsolute(path) == Len(path) > 0 /\ path[1] = SEP

\* Path::parent: NONE when the path ends in a root or is empty
PathParent(path) ==
    LET comps == Components(path) IN
    IF comps = << >> \/ comps[Len(comps)].kind = "RootDir" THEN NONE
    ELSE AsPath(SubSeq(comps, 1, Len(comps) - 1))

\* Path::join / PathBuf::push
PathJoin(base, p) ==
    IF IsAbsolute(p) THEN p
    ELSE IF base = EMPTY \/ base[Len(base)] = SEP THEN base \o p
    ELSE base \o ROOT \o p

\* Path::file_name: NONE unless the last component is a normal one
FileName(path) ==
    LET comps == Components(path) IN
    IF comps = << >> \/ comps[Len(comps)].kind # "Normal" THEN NONE
    ELSE comps[Len(comps)].name

\* Path::file_stem and Path::extension of a file name (split at the last dot)
StemOf(name) ==
    LET i == LastIndexFrom(name, DOT, Len(name)) IN
    IF i <= 1 THEN name ELSE SubSeq(name, 1, i - 1)

ExtOf(name) ==
    LET i == LastIndexFrom(name, DOT, Len(name)) IN
    IF i <= 1 THEN NONE ELSE SubSeq(name, i + 1, Len(name))

Extension(path) ==
    IF FileName(path) = NONE THEN NONE ELSE ExtOf(FileName(path))

\* PathBuf::pop: [ok, path]
PathPop(path) ==
    IF PathParent(path) = NONE THEN [ok |-> FALSE, path |-> path]
    ELSE [ok |-> TRUE, path |-> PathParent(path)]

\* PathBuf::set_extension(""): cut the path right after the file stem
SetExtensionEmpty(path) ==
    IF FileName(path) = NONE THEN path
    ELSE LET comps == Components(path) IN
         AsPath(SubSeq(comps, 1, Len(comps) - 1)
                \o <<Comp("Normal", StemOf(FileName(path)))>>)

\* PathBuf::set_file_name
SetFileName(path, name) ==
    PathJoin(IF FileName(path) = NONE THEN path ELSE PathPop(path).path, name)

\* as PathStartsWith, the path having to be the base itself
PathStartsWithExact(path, base) == Components(path) = Components(base)

\* Path::starts_with: whole components only
PathStartsWith(path, base) ==
    LET pc == Components(path)
        bc == Components(base) IN
    Len(bc) <= Len(pc) /\ SubSeq(pc, 1, Len(bc)) = bc

\* PathExt::extension_is
ExtensionIs(path, ext) == Extension(path) = ext

(***************************************************************************)
(* normalize_path::NormalizePath::try_normalize, as markdown.rs uses it    *)
(***************************************************************************)
\* as the loop of try_normalize, a parent segment with nothing above it being
\* dropped
RECURSIVE NormalizeFromLossy(_, _, _)
NormalizeFromLossy(comps, i, ret) ==
    IF i > Len(comps) THEN ret
    ELSE LET c == comps[i] IN
         IF c.kind = "RootDir" THEN NONE
         ELSE IF c.kind = "CurDir" THEN NormalizeFromLossy(comps, i + 1, ret)
         ELSE IF c.kind = "ParentDir"
         THEN NormalizeFromLossy(comps, i + 1, PathPop(ret).path)
         ELSE NormalizeFromLossy(comps, i + 1, PathJoin(ret, c.name))

\* the loop over the components, ret being the PathBuf built so far
RECURSIVE NormalizeFrom(_, _, _)
NormalizeFrom(comps, i, ret) ==
    IF i > Len(comps) THEN ret
    ELSE LET c == comps[i] IN
         IF c.kind = "RootDir" THEN NONE
         ELSE IF c.kind = "CurDir" THEN NormalizeFrom(comps, i + 1, ret)
         ELSE IF c.kind = "ParentDir" THEN
             IF PathPop(ret).ok
             THEN NormalizeFrom(comps, i + 1, PathPop(ret).path)
             ELSE NONE
         ELSE NormalizeFrom(comps, i + 1, PathJoin(ret, c.name))

\* as try_normalize, the root of an absolute path being kept
try_normalize_keep_root(path) ==
    IF IsAbsolute(path)
    THEN LET r == NormalizeFrom(Components(Tail(path)), 1, EMPTY) IN
         IF r = NONE THEN NONE ELSE PathJoin(ROOT, r)
    ELSE NormalizeFrom(Components(path), 1, EMPTY)

try_normalize(path) == NormalizeFrom(Components(path), 1, EMPTY)

\* as get_abs_path, the result being left relative
get_abs_path_relative(markdown_path, link_file_path) ==
    LET dir_path == IF PathParent(markdown_path) = NONE THEN EMPTY
                    ELSE PathParent(markdown_path) IN
    try_normalize(PathJoin(dir_path, link_file_path))

\* markdown.rs get_abs_path
get_abs_path(markdown_path, link_file_path) ==
    LET dir_path == IF PathParent(markdown_path) = NONE THEN EMPTY
                    ELSE PathParent(markdown_path)
        path == try_normalize(PathJoin(dir_path, link_file_path)) IN
    IF path = NONE THEN NONE ELSE PathJoin(ROOT, path)

(***************************************************************************)
(* url::Url::parse without a base, as is_url uses it                       *)
(***************************************************************************)
SchemeChars == Letters \cup Digits \cup {"+", "-", "."}

\* the length of the scheme of str ("x:" has scheme length 1), 0 if it has none
SchemeLen(str) ==
    LET i == IndexFrom(str, ":", 1) IN
    IF i > 1 /\ str[1] \in Letters
       /\ \A j \in 2..(i - 1) : str[j] \in SchemeChars
    THEN i - 1 ELSE 0

\* schemes whose URL needs a host
HostSchemes ==
    {<<"h", "t", "t", "p">>, <<"h", "t", "t", "p", "s">>, <<"f", "t", "p">>,
     <<"w", "s">>, <<"w", "s", "s">>}

RECURSIVE SkipSlashes(_, _)
SkipSlashes(str, i) ==
    IF i <= Len(str) /\ str[i] \in {"/", "\\"} THEN SkipSlashes(str, i + 1) ELSE i

\* as is_url, a scheme counting only when "//" follows it
is_url_with_authority(str) ==
    LET n == SchemeLen(str) IN
    /\ n > 0
    /\ Len(str) >= n + 3 /\ str[n + 2] = "/" /\ str[n + 3] = "/"
    /\ LET h == SkipSlashes(str, n + 2) IN
       SubSeq(str, 1, n) \in HostSchemes
           => (h <= Len(str) /\ str[h] \notin {"?", "#", ":"})

\* markdown.rs is_url
is_url(str) ==
    LET n == SchemeLen(str) IN
    /\ n > 0
    /\ LET h == SkipSlashes(str, n + 2) IN
       SubSeq(str, 1, n) \in HostSchemes
           => (h <= Len(str) /\ str[h] \notin {"?", "#", ":"})

(***************************************************************************)
(* str::parse for i32 and u32, chrono::NaiveDate::from_ymd_opt             *)
(***************************************************************************)
\* the decimal digits of i32::MAX and u32::MAX
I32MaxDigits == <<"2", "1", "4", "7", "4", "8", "3", "6", "4", "7">>
U32MaxDigits == <<"4", "2", "9", "4", "9", "6", "7", "2", "9", "5">>
RECURSIVE StripZeros(_)
StripZeros(s) ==
    IF Len(s) > 1 /\ s[1] = "0" THEN StripZeros(Tail(s)) ELSE s

\* a > b for digit strings of the same length
RECURSIVE DigitsGreater(_, _)
DigitsGreater(a, b) ==
    IF a = << >> THEN FALSE
    ELSE IF DigitVal(a[1]) # DigitVal(b[1]) THEN DigitVal(a[1]) > DigitVal(b[1])
    ELSE DigitsGreater(Tail(a), Tail(b))

\* the digit string s stands for a number above the one maxDigits stands for
Exceeds(s, maxDigits) ==
    LET z == StripZeros(s) IN
    Len(z) > Len(maxDigits) \/ (Len(z) = Len(maxDigits) /\ DigitsGreater(z, maxDigits))

RECURSIVE DigitsValue(_, _, _)
DigitsValue(s, i, acc) ==
    IF i > Len(s) THEN acc ELSE DigitsValue(s, i + 1, acc * 10 + DigitVal(s[i]))

\* <integer type>::from_str: [ok, val]; signed accepts a leading minus.  A u32
\* above i32::MAX is held as i32::MAX: the only use of the value is
\* from_ymd_opt, which treats every month or day that large alike.
ParseInt(s, signed, maxDigits) ==
    LET neg == signed /\ Len(s) > 0 /\ s[1] = "-"
        body == IF Len(s) > 0 /\ (s[1] = "+" \/ neg) THEN Tail(s) ELSE s IN
    IF body = EMPTY \/ \E j \in 1..Len(body) : body[j] \notin Digits
    THEN [ok |-> FALSE, val |-> 0]
    ELSE IF Exceeds(body, maxDigits) THEN [ok |-> FALSE, val |-> 0]
    ELSE IF Exceeds(body, I32MaxDigits) THEN [ok |-> TRUE, val |-> 2147483647]
    ELSE LET v == DigitsValue(StripZeros(body), 1, 0) IN
         [ok |-> TRUE, val |-> IF neg THEN 0 - v ELSE v]

IsLeapYear(y) == (y % 4 = 0 /\ y % 100 # 0) \/ y % 400 = 0

DaysInMonth(y, m) ==
    IF m = 2 THEN (IF IsLeapYear(y) THEN 29 ELSE 28)
    ELSE IF m \in {4, 6, 9, 11} THEN 30 ELSE 31

\* chrono::NaiveDate::from_ymd_opt is Some
from_ymd_opt(y, m, d) ==
    /\ y >= 0 - 262143 /\ y <= 262142
    /\ m >= 1 /\ m <= 12
    /\ d >= 1 /\ d <= DaysInMonth(y, m)

(***************************************************************************)
(* blog_entry.rs                                                           *)
(***************************************************************************)
Failed(e) == [ok |-> FALSE, err |-> e, date |-> <<0, 0, 0>>, slug |-> EMPTY]

\* BlogEntry::parse_path: [ok, err, date, slug]
parse_path(path) ==
    LET stripped == SetExtensionEmpty(path)
        file_name == FileName(stripped) IN
    IF file_name = NONE THEN Failed("file name not found")
    ELSE LET split == SplitN(file_name, HYPHEN, 4) IN
         IF Len(split) # 4
         THEN Failed("expected the filename have the format")
         ELSE LET year == ParseInt(split[1], TRUE, I32MaxDigits)
                  month == ParseInt(split[2], FALSE, U32MaxDigits)
                  day == ParseInt(split[3], FALSE, U32MaxDigits) IN
              IF ~year.ok THEN Failed("failed to parse year")
              ELSE IF ~month.ok THEN Failed("failed to parse month")
              ELSE IF ~day.ok THEN Failed("failed to parse day")
              ELSE IF ~from_ymd_opt(year.val, month.val, day.val)
              THEN Failed("the date isn't valid")
              ELSE [ok |-> TRUE, err |-> "", slug |-> split[4],
                    date |-> <<year.val, month.val, day.val>>]

(***************************************************************************)
(* markdown.rs link rewriting                                              *)
(***************************************************************************)
BLOG_PREFIX == <<"/", "b", "l", "o", "g", "/">>

Patched(u) == [ok |-> TRUE, err |-> "", url |-> u]
PatchFailed(e, u) == [ok |-> FALSE, err |-> e, url |-> u]

\* as patch_link, the extension of a page never being removed
patch_link_keep_md(file_path, url) ==
    IF is_url(url) THEN Patched(url)
    ELSE LET abs == get_abs_path(file_path, url) IN
         IF abs = NONE
         THEN PatchFailed("the path is points outside current directory", url)
         ELSE LET isBlog == ExtensionIs(abs, MD) /\ PathStartsWith(abs, BLOG_PREFIX)
                  parsed == parse_path(abs) IN
              IF isBlog /\ ~parsed.ok THEN PatchFailed(parsed.err, url)
              ELSE Patched(IF isBlog
                           THEN SetExtensionEmpty(SetFileName(abs, parsed.slug))
                           ELSE abs)

\* MarkdownBuilder::patch_link: [ok, err, url], url being link.url afterwards
patch_link(file_path, url) ==
    IF is_url(url) THEN Patched(url)
    ELSE LET abs == get_abs_path(file_path, url) IN
         IF abs = NONE
         THEN PatchFailed("the path is points outside current directory", url)
         ELSE LET isBlog == ExtensionIs(abs, MD) /\ PathStartsWith(abs, BLOG_PREFIX)
                  parsed == parse_path(abs) IN
              IF isBlog /\ ~parsed.ok THEN PatchFailed(parsed.err, url)
              ELSE LET renamed == IF isBlog THEN SetFileName(abs, parsed.slug)
                                  ELSE abs IN
                   Patched(IF ExtensionIs(renamed, MD)
                           THEN SetExtensionEmpty(renamed) ELSE renamed)

\* as patch_image_link, a target that does not resolve being left as written
patch_image_link_lenient(file_path, url) ==
    IF is_url(url) THEN Patched(url)
    ELSE LET abs == get_abs_path(file_path, url) IN
         IF abs = NONE THEN Patched(url)
         ELSE Patched(IF ExtensionIs(abs, MD) THEN SetExtensionEmpty(abs) ELSE abs)

\* MarkdownBuilder::patch_image_link
patch_image_link(file_path, url) ==
    IF is_url(url) THEN Patched(url)
    ELSE LET abs == get_abs_path(file_path, url) IN
         IF abs = NONE
         THEN PatchFailed("the path is points outside current directory", url)
         ELSE Patched(IF ExtensionIs(abs, MD) THEN SetExtensionEmpty(abs) ELSE abs)

(***************************************************************************)
(* Inputs: document paths, link targets, file names, document contents     *)
(***************************************************************************)
\* "bar.md"
doc_bar == <<"b", "a", "r", ".", "m", "d">>
\* "foo/bar.md"
doc_foo_bar == <<"f", "o", "o", "/", "b", "a", "r", ".", "m", "d">>
\* "foo/baz/qux.md"
doc_foo_baz_qux ==
    <<"f", "o", "o", "/", "b", "a", "z", "/", "q", "u", "x", ".", "m", "d">>
\* "blog/note.md"
doc_blog_note ==
    <<"b", "l", "o", "g", "/", "n", "o", "t", "e", ".", "m", "d">>
\* "blog/2024-01-01-a.md"
doc_blog_entry ==
    <<"b", "l", "o", "g", "/", "2", "0", "2", "4", "-", "0", "1", "-", "0",
      "1", "-", "a", ".", "m", "d">>

\* "images/image.png"
l_images ==
    <<"i", "m", "a", "g", "e", "s", "/", "i", "m", "a", "g", "e", ".", "p",
      "n", "g">>
\* "./images/image.png"
l_cur_images ==
    <<".", "/", "i", "m", "a", "g", "e", "s", "/", "i", "m", "a", "g", "e",
      ".", "p", "n", "g">>
\* "../images/image.png"
l_up_images ==
    <<".", ".", "/", "i", "m", "a", "g", "e", "s", "/", "i", "m", "a", "g",
      "e", ".", "p", "n", "g">>
\* "../../images/image.png"
l_upup_images ==
    <<".", ".", "/", ".", ".", "/", "i", "m", "a", "g", "e", "s", "/", "i",
      "m", "a", "g", "e", ".", "p", "n", "g">>
\* "/images/image.png"
l_abs_images ==
    <<"/", "i", "m", "a", "g", "e", "s", "/", "i", "m", "a", "g", "e", ".",
      "p", "n", "g">>
\* "#section"
l_fragment == <<"#", "s", "e", "c", "t", "i", "o", "n">>
\* "?q=1"
l_query == <<"?", "q", "=", "1">>
\* "https://example.com/a.md"
l_https ==
    <<"h", "t", "t", "p", "s", ":", "/", "/", "e", "x", "a", "m", "p", "l",
      "e", ".", "c", "o", "m", "/", "a", ".", "m", "d">>
\* "mailto:me@x.y"
l_mailto ==
    <<"m", "a", "i", "l", "t", "o", ":", "m", "e", "@", "x", ".", "y">>
\* "http://"
l_http_nohost == <<"h", "t", "t", "p", ":", "/", "/">>
\* "c:a.md"
l_drive == <<"c", ":", "a", ".", "m", "d">>
\* "2024-01-05-my-first-post.md"
l_post ==
    <<"2", "0", "2", "4", "-", "0", "1", "-", "0", "5", "-", "m", "y", "-",
      "f", "i", "r", "s", "t", "-", "p", "o", "s", "t", ".", "m", "d">>
\* "blog/2024-01-05-my-first-post.md"
l_blog_post ==
    <<"b", "l", "o", "g", "/", "2", "0", "2", "4", "-", "0", "1", "-", "0",
      "5", "-", "m", "y", "-", "f", "i", "r", "s", "t", "-", "p", "o", "s",
      "t", ".", "m", "d">>
\* "../blog/2024-01-05-my-first-post.md"
l_up_blog_post ==
    <<".", ".", "/", "b", "l", "o", "g", "/", "2", "0", "2", "4", "-", "0",
      "1", "-", "0", "5", "-", "m", "y", "-", "f", "i", "r", "s", "t", "-",
      "p", "o", "s", "t", ".", "m", "d">>
\* "about.md"
l_about == <<"a", "b", "o", "u", "t", ".", "m", "d">>
\* "/about.md"
l_abs_about == <<"/", "a", "b", "o", "u", "t", ".", "m", "d">>
\* "a.md.md"
l_double_md == <<"a", ".", "m", "d", ".", "m", "d">>
\* ".md"
l_dot_md == <<".", "m", "d">>
\* "2024-1-5-x.md"
l_short_date ==
    <<"2", "0", "2", "4", "-", "1", "-", "5", "-", "x", ".", "m", "d">>
\* "blog/x.md"
l_blog_x == <<"b", "l", "o", "g", "/", "x", ".", "m", "d">>
\* "blog/2024-13-05-x.md"
l_bad_month ==
    <<"b", "l", "o", "g", "/", "2", "0", "2", "4", "-", "1", "3", "-", "0",
      "5", "-", "x", ".", "m", "d">>
\* "blog/2024-01-05-notes.md.md"
l_post_md_md ==
    <<"b", "l", "o", "g", "/", "2", "0", "2", "4", "-", "0", "1", "-", "0",
      "5", "-", "n", "o", "t", "e", "s", ".", "m", "d", ".", "m", "d">>
\* "figure.md"
l_image_md == <<"f", "i", "g", "u", "r", "e", ".", "m", "d">>

\* "2024-01-05-my-first-post"
n_first_post ==
    <<"2", "0", "2", "4", "-", "0", "1", "-", "0", "5", "-", "m", "y", "-",
      "f", "i", "r", "s", "t", "-", "p", "o", "s", "t">>
\* "2024-13-05-x"
n_bad_month == <<"2", "0", "2", "4", "-", "1", "3", "-", "0", "5", "-", "x">>
\* "2024-02-30-x"
n_feb_30 == <<"2", "0", "2", "4", "-", "0", "2", "-", "3", "0", "-", "x">>
\* "2024-01-05"
n_no_slug == <<"2", "0", "2", "4", "-", "0", "1", "-", "0", "5">>
\* "not-a-date-post"
n_not_a_date ==
    <<"n", "o", "t", "-", "a", "-", "d", "a", "t", "e", "-", "p", "o", "s",
      "t">>
\* "2024-1-5-x"
n_short == <<"2", "0", "2", "4", "-", "1", "-", "5", "-", "x">>
\* "+2024-01-05-x"
n_plus == <<"+", "2", "0", "2", "4", "-", "0", "1", "-", "0", "5", "-", "x">>
\* "2024-01-05-"
n_empty_slug == <<"2", "0", "2", "4", "-", "0", "1", "-", "0", "5", "-">>
\* "99999999999-01-05-x"
n_huge_year ==
    <<"9", "9", "9", "9", "9", "9", "9", "9", "9", "9", "9", "-", "0", "1",
      "-", "0", "5", "-", "x">>
\* "300000-01-05-x"
n_big_year ==
    <<"3", "0", "0", "0", "0", "0", "-", "0", "1", "-", "0", "5", "-", "x">>
\* "-2024-01-05-x"
n_minus == <<"-", "2", "0", "2", "4", "-", "0", "1", "-", "0", "5", "-", "x">>

\* "my-first-post"
s_my_first_post ==
    <<"m", "y", "-", "f", "i", "r", "s", "t", "-", "p", "o", "s", "t">>
\* "x"
s_x == <<"x">>
\* "v1.2"
s_v1_2 == <<"v", "1", ".", "2">>
\* "a"
seg_a == <<"a">>
\* "b.md"
seg_b_md == <<"b", ".", "m", "d">>
\* "A"
t_A == <<"A">>
\* "B"
t_B == <<"B">>
\* "Some text."
t_para == <<"S", "o", "m", "e", " ", "t", "e", "x", "t", ".">>
\* "/blog/my-first-post"
u_blog_first_post ==
    <<"/", "b", "l", "o", "g", "/", "m", "y", "-", "f", "i", "r", "s", "t",
      "-", "p", "o", "s", "t">>
\* "/about"
u_about == <<"/", "a", "b", "o", "u", "t">>
\* "/images/image.png"
u_images ==
    <<"/", "i", "m", "a", "g", "e", "s", "/", "i", "m", "a", "g", "e", ".",
      "p", "n", "g">>
\* "/foo/images/image.png"
u_foo_images ==
    <<"/", "f", "o", "o", "/", "i", "m", "a", "g", "e", "s", "/", "i", "m",
      "a", "g", "e", ".", "p", "n", "g">>
\* "blog"
blog_dir == <<"b", "l", "o", "g">>
\* ".md"
DOT_MD == <<".", "m", "d">>

\* bounds of the generated inputs
MaxSegs == 3
MaxNodes == 2

\* relative paths of documents, as the directory walk yields them
DocPaths == {doc_bar, doc_foo_bar, doc_foo_baz_qux, doc_blog_note, doc_blog_entry}

NamedLinks ==
    {l_images, l_cur_images, l_up_images, l_upup_images, l_abs_images,
     l_fragment, l_query, l_https, l_mailto, l_http_nohost, l_drive, l_post,
     l_blog_post,
     l_up_blog_post, l_about, l_abs_about, l_double_md, l_dot_md,
     l_short_date, l_blog_x, l_bad_month, l_post_md_md, l_image_md}

\* segments the generated links are made of; the empty one gives a leading,
\* doubled or trailing separator
LinkSegs == {EMPTY, PARENT, CUR, seg_a, seg_b_md}

RECURSIVE JoinSegs(_)
JoinSegs(segs) ==
    IF segs = << >> THEN EMPTY
    ELSE IF Len(segs) = 1 THEN segs[1]
    ELSE segs[1] \o ROOT \o JoinSegs(Tail(segs))

GeneratedLinks ==
    {JoinSegs(ss) : ss \in UNION {[1..k -> LinkSegs] : k \in 0..MaxSegs}}

Links == NamedLinks \cup GeneratedLinks

\* the decimal digits of n
RECURSIVE DigitsOf(_)
DigitsOf(n) ==
    IF n < 10 THEN <<DigitChar(n)>> ELSE DigitsOf(n \div 10) \o <<DigitChar(n % 10)>>

\* n in decimal, padded with zeros to at least w digits
RECURSIVE Padded(_, _)
Padded(ds, w) == IF Len(ds) >= w THEN ds ELSE Padded(<<"0">> \o ds, w)

Fmt(n, w) == Padded(DigitsOf(n), w)

\* the file name "YYYY-MM-DD-slug", month and day being w digits wide or more
FormatName(y, m, d, w, slug) ==
    Fmt(y, 4) \o <<HYPHEN>> \o Fmt(m, w) \o <<HYPHEN>> \o Fmt(d, w)
        \o <<HYPHEN>> \o slug

Years == {1900, 2000, 2023, 2024}
Months == {0, 1, 2, 12, 13}
Days == {0, 1, 28, 29, 30, 31, 32}
Slugs == {s_x, s_my_first_post, s_v1_2}

NamedFileNames ==
    {n_first_post, n_bad_month, n_feb_30, n_no_slug, n_not_a_date, n_short,
     n_plus, n_empty_slug, n_huge_year, n_big_year, n_minus}

GeneratedFileNames ==
    {FormatName(y, m, d, w, slug) :
        y \in Years, m \in Months, d \in Days, w \in {1, 2}, slug \in Slugs}

FileNames == NamedFileNames \cup GeneratedFileNames

\* the path of the blog source file of a name
BlogPath(name) == blog_dir \o ROOT \o name \o DOT_MD

Node(k, u) == [kind |-> k, url |-> u]

Kinds == {"Link", "Image"}

\* link targets of the documents that hold several nodes
CoreLinks == {l_images, l_upup_images, l_https, l_fragment, l_blog_post, l_blog_x}

NodeLists(targets, n) ==
    UNION {[1..k -> {Node(k2, u) : k2 \in Kinds, u \in targets}] : k \in 0..n}

\* the leading metadata block of a document
NoFrontmatter ==
    [present |-> FALSE, valid |-> TRUE, title |-> NONE, description |-> NONE,
     tags |-> << >>]

Frontmatters ==
    {NoFrontmatter} \cup
    {[present |-> TRUE, valid |-> v, title |-> t, description |-> d, tags |-> g] :
        v \in BOOLEAN, t \in {NONE, t_A}, d \in {NONE, t_A},
        g \in {<< >>, <<"rust", "web">>}}

Source(r, n, f, h, p) ==
    [readable |-> r, nodes |-> n, fm |-> f, h1 |-> h, para |-> p]

TitledFrontmatter ==
    [present |-> TRUE, valid |-> TRUE, title |-> t_A, description |-> NONE,
     tags |-> << >>]

\* the documents the builds are run on: [file_path, blog, src]
Input(f, b, s) == [file_path |-> f, blog |-> b, src |-> s]

\* one link or image, every target, every document path
LinkInputs ==
    {Input(f, FALSE, Source(TRUE, <<Node(k, u)>>, TitledFrontmatter, t_B, t_para)) :
        f \in DocPaths, k \in Kinds, u \in Links}

\* several links and images
NodeInputs ==
    {Input(f, FALSE, Source(TRUE, n, NoFrontmatter, t_B, NONE)) :
        f \in {doc_foo_bar, doc_bar}, n \in NodeLists(CoreLinks, MaxNodes)}

\* every shape of metadata, heading and first paragraph
MetaInputs ==
    {Input(doc_foo_bar, FALSE, Source(r, n, f, h, p)) :
        r \in BOOLEAN, n \in {<< >>, <<Node("Link", l_images)>>},
        f \in Frontmatters, h \in {NONE, t_B}, p \in {NONE, t_para}}

\* blog entries of every file name
BlogInputs ==
    {Input(BlogPath(n), TRUE, Source(TRUE, nl, NoFrontmatter, h, NONE)) :
        n \in FileNames, nl \in {<< >>, <<Node("Link", l_post)>>},
        h \in {NONE, t_B}}

Inputs == LinkInputs \cup NodeInputs \cup MetaInputs \cup BlogInputs

(***************************************************************************)
(* markdown.rs content extraction                                          *)
(***************************************************************************)
Whitespace == {" ", "\n", "\t", "\r"}

\* str::trim_end
RECURSIVE TrimEnd(_)
TrimEnd(str) ==
    IF str # << >> /\ str[Len(str)] \in Whitespace
    THEN TrimEnd(SubSeq(str, 1, Len(str) - 1)) ELSE str

\* comrak::format_commonmark of a level-1 heading and of a paragraph
FormatHeading(text) == <<"#", " ">> \o text \o <<"\n">>
FormatParagraph(text) == text \o <<"\n">>

DefaultFrontmatter == [title |-> NONE, description |-> NONE, tags |-> << >>]

\* as get_frontmatter, a block that does not deserialize counting as no block
get_frontmatter_or_default(source) ==
    IF ~source.fm.present \/ ~source.fm.valid
    THEN [ok |-> TRUE, fm |-> DefaultFrontmatter]
    ELSE [ok |-> TRUE,
          fm |-> [title |-> source.fm.title,
                  description |-> source.fm.description,
                  tags |-> source.fm.tags]]

\* MarkdownBuilder::get_frontmatter: [ok, fm]
get_frontmatter(source) ==
    IF ~source.fm.present THEN [ok |-> TRUE, fm |-> DefaultFrontmatter]
    ELSE IF ~source.fm.valid THEN [ok |-> FALSE, fm |-> DefaultFrontmatter]
    ELSE [ok |-> TRUE,
          fm |-> [title |-> source.fm.title,
                  description |-> source.fm.description,
                  tags |-> source.fm.tags]]

\* as get_title, the heading being looked at before the metadata
get_title_heading_first(fm, source) ==
    IF source.h1 # NONE
    THEN LET output == FormatHeading(source.h1) IN
         TrimEnd(SubSeq(output, 3, Len(output)))
    ELSE fm.title

\* MarkdownBuilder::get_title: the Markdown form of the title, or NONE (the
\* HTML form is comrak's rendering of the Markdown form and is left out)
get_title(fm, source) ==
    IF fm.title # NONE THEN fm.title
    ELSE IF source.h1 # NONE
    THEN LET output == FormatHeading(source.h1) IN
         TrimEnd(SubSeq(output, 3, Len(output)))
    ELSE NONE

\* as get_description, the paragraph being looked at before the metadata
get_description_paragraph_first(fm, source) ==
    IF source.para # NONE THEN FormatParagraph(source.para)
    ELSE fm.description

\* MarkdownBuilder::get_description
get_description(fm, source) ==
    IF fm.description # NONE THEN fm.description
    ELSE IF source.para # NONE THEN FormatParagraph(source.para)
    ELSE NONE

(***************************************************************************)
(* The build of one document: BlogEntry::new or Markdown::builder, then    *)
(* MarkdownBuilder::build                                                  *)
(***************************************************************************)
VARIABLES
    file_path,    \* path of the document, relative to the base directory
    blog,         \* the document is built by BlogEntry::new
    src,          \* the document as parsed: nodes, metadata, heading, paragraph
    entry,        \* what parse_path returned for the blog entry
    nodes,        \* the link and image nodes of the tree, rewritten in place
    resolved,     \* new_path as get_abs_path returned it, per node visited
    idx,          \* the node the walk visits next
    frontmatter,  \* the metadata get_frontmatter returned
    title,        \* Markdown form of the title
    description,  \* Markdown form of the description
    pc,           \* where the build stands
    result        \* "pending", "Ok" or the error the build returned

docvars == <<file_path, blog, src, entry, nodes, resolved, idx, frontmatter,
             title, description, pc, result>>

\* the build of the site, Generator::build
VARIABLES
    scan,           \* the files of the source directory, in the order iter_dir meets them
    repo,           \* the commit graph the GitRepo reads
    pos,            \* the file of the scan iter_dir handles next
    all_blog,       \* Generator::all_blog
    commits,        \* what the last call of commits_for_file returned
    written,        \* the files written under the destination directory
    tag_blog_list,  \* what process_tag_blog_list returned
    feed,           \* the channel written to blog/rss.xml
    gpc,            \* where Generator::build stands
    gresult         \* "pending", "Ok" or the error Generator::build returned

genvars == <<scan, repo, pos, all_blog, commits, written, tag_blog_list, feed,
             gpc, gresult>>

\* the destination directory, lib.rs build
VARIABLES
    dst_exists,     \* the destination path exists
    runs,           \* the calls of build so far
    removed         \* how often the destination has been removed

libvars == <<dst_exists, runs, removed>>

\* the loop of main.rs, fetch_and_build
VARIABLES
    lpc,            \* where fetch_and_build stands
    local_ref,      \* the commit refs/heads/main points to, 0 before the clone
    fetch_head,     \* the commit a fetch leaves in FETCH_HEAD
    cur_commit,     \* cur_commit of the iteration
    fet_commit,     \* fet_commit of the iteration
    builds,         \* the calls of build_once: the commit checked out, the outcome
    pushes,         \* how often the remote has moved
    panic           \* the message the process ended with, "" while it runs

loopvars == <<lpc, local_ref, fetch_head, cur_commit, fet_commit, builds,
              pushes, panic>>

vars == <<docvars, genvars, libvars, loopvars>>

\* no destination is being built into
LibIdle == dst_exists = FALSE /\ runs = 0 /\ removed = 0

\* the loop is not running
LoopIdle ==
    /\ lpc = "idle"
    /\ local_ref = 0
    /\ fetch_head = 0
    /\ cur_commit = 0
    /\ fet_commit = 0
    /\ builds = << >>
    /\ pushes = 0
    /\ panic = ""

NoRepo == [commits |-> << >>, head |-> 0, corrupt |-> FALSE]
NoFeed == [written |-> FALSE, pub_date |-> 0, last_build_date |-> 0, items |-> << >>]

\* no site is being built
GenIdle ==
    /\ scan = << >>
    /\ repo = NoRepo
    /\ pos = 0
    /\ all_blog = << >>
    /\ commits = << >>
    /\ written = {}
    /\ tag_blog_list = [t \in {} |-> << >>]
    /\ feed = NoFeed
    /\ gpc = "idle"
    /\ gresult = "pending"

\* resolved[i] of a target that is a URL: get_abs_path is not called
EXTERNAL == <<"External">>

Init ==
    \E in \in Inputs :
        /\ file_path = in.file_path
        /\ blog = in.blog
        /\ src = in.src
        /\ entry = Failed("")
        /\ nodes = in.src.nodes
        /\ resolved = << >>
        /\ idx = 1
        /\ frontmatter = DefaultFrontmatter
        /\ title = NONE
        /\ description = NONE
        /\ pc = IF in.blog THEN "blog_entry_new" ELSE "builder_new"
        /\ result = "pending"
        /\ GenIdle
        /\ LibIdle
        /\ LoopIdle

Fail(e) == pc' = "done" /\ result' = e

\* BlogEntry::new up to the parse of the path
BlogEntryNew ==
    /\ pc = "blog_entry_new"
    /\ entry' = parse_path(file_path)
    /\ IF entry'.ok THEN pc' = "builder_new" /\ result' = result
       ELSE Fail(entry'.err)
    /\ UNCHANGED <<file_path, blog, src, nodes, resolved, idx, frontmatter,
                   title, description>>
    /\ UNCHANGED <<genvars, libvars, loopvars>>

\* MarkdownBuilder::new: reads the file
MarkdownBuilderNew ==
    /\ pc = "builder_new"
    /\ IF src.readable THEN pc' = "links" /\ result' = result
       ELSE Fail("failed to open the file")
    /\ UNCHANGED <<file_path, blog, src, entry, nodes, resolved, idx,
                   frontmatter, title, description>>
    /\ UNCHANGED <<genvars, libvars, loopvars>>

\* what the walk records for a node: the value of get_abs_path, if called
ResolvedOf(url) ==
    IF is_url(url) THEN EXTERNAL ELSE get_abs_path(file_path, url)

\* one step of the walk of MarkdownBuilder::build over the nodes
Patch(kind, p) ==
    /\ pc = "links"
    /\ idx <= Len(nodes)
    /\ nodes[idx].kind = kind
    /\ resolved' = Append(resolved, ResolvedOf(nodes[idx].url))
    /\ nodes' = [nodes EXCEPT ![idx].url = p.url]
    /\ IF p.ok THEN idx' = idx + 1 /\ pc' = pc /\ result' = result
       ELSE idx' = idx /\ Fail(p.err)
    /\ UNCHANGED <<file_path, blog, src, entry, frontmatter, title, description>>
    /\ UNCHANGED <<genvars, libvars, loopvars>>

PatchLink ==
    /\ pc = "links" /\ idx <= Len(nodes)
    /\ Patch("Link", patch_link(file_path, nodes[idx].url))

PatchImageLink ==
    /\ pc = "links" /\ idx <= Len(nodes)
    /\ Patch("Image", patch_image_link(file_path, nodes[idx].url))

\* MarkdownBuilder::build after the walk: the metadata block
GetFrontmatter ==
    /\ pc = "links"
    /\ idx > Len(nodes)
    /\ LET r == get_frontmatter(src) IN
        /\ frontmatter' = r.fm
        /\ IF r.ok THEN pc' = "title" /\ result' = result
           ELSE Fail("failed to parse yaml frontmatter")
    /\ UNCHANGED <<file_path, blog, src, entry, nodes, resolved, idx, title,
                   description>>
    /\ UNCHANGED <<genvars, libvars, loopvars>>

GetTitle ==
    /\ pc = "title"
    /\ title' = get_title(frontmatter, src)
    /\ IF title' # NONE THEN pc' = "description" /\ result' = result
       ELSE Fail("title not found")
    /\ UNCHANGED <<file_path, blog, src, entry, nodes, resolved, idx,
                   frontmatter, description>>
    /\ UNCHANGED <<genvars, libvars, loopvars>>

\* the description, the HTML, and the Markdown (or BlogEntry) returned
GetDescription ==
    /\ pc = "description"
    /\ description' = get_description(frontmatter, src)
    /\ pc' = "done"
    /\ result' = "Ok"
    /\ UNCHANGED <<file_path, blog, src, entry, nodes, resolved, idx,
                   frontmatter, title>>
    /\ UNCHANGED <<genvars, libvars, loopvars>>

Next ==
    \/ BlogEntryNew
    \/ MarkdownBuilderNew
    \/ PatchLink
    \/ PatchImageLink
    \/ GetFrontmatter
    \/ GetTitle
    \/ GetDescription

Spec == Init /\ [][Next]_vars

(***************************************************************************)
(* Properties of path resolution                                           *)
(***************************************************************************)
\* the segments of a link or path that name something: no empty one, no "."
NamedSegs(str) ==
    SelectSeq(Split(str, SEP), LAMBDA x : x # EMPTY /\ x # CUR)

\* the directory segments of a document path
DirSegs(doc) ==
    LET segs == NamedSegs(doc) IN SubSeq(segs, 1, Len(segs) - 1)

Count(segs, k, up) ==
    Cardinality({j \in 1..k : (segs[j] = PARENT) = up})

\* some ".." of the link has no segment left above it to cancel
EscapesRoot(doc, link) ==
    LET segs == NamedSegs(link) IN
    \E k \in 1..Len(segs) :
        Count(segs, k, TRUE) > Len(DirSegs(doc)) + Count(segs, k, FALSE)

\* lexical normalisation by rewriting: drop a segment and the ".." after it
RECURSIVE Cancel(_)
Cancel(segs) ==
    IF \E j \in 1..(Len(segs) - 1) : segs[j] # PARENT /\ segs[j + 1] = PARENT
    THEN LET j == CHOOSE j \in 1..(Len(segs) - 1) :
                      segs[j] # PARENT /\ segs[j + 1] = PARENT IN
         Cancel(SubSeq(segs, 1, j - 1) \o SubSeq(segs, j + 2, Len(segs)))
    ELSE segs

\* the normalized join of the directory of doc and link, prefixed with "/"
NormalizedJoin(doc, link) ==
    ROOT \o JoinSegs(Cancel(DirSegs(doc) \o NamedSegs(link)))

\* the nodes the walk has visited and resolved through get_abs_path
Visited == {i \in 1..Len(resolved) : resolved[i] # EXTERNAL}

\* C1: from foo/bar.md, ../../images/image.png fails, ../images/image.png
\* gives /images/image.png, images/image.png and ./images/image.png give
\* /foo/images/image.png; a relative link fails when one of its ".." has no
\* segment above it, and gives the normalized join prefixed with "/" otherwise
C1_PathJoin ==
    \A i \in Visited :
        LET link == src.nodes[i].url
            r == resolved[i] IN
        /\ file_path = doc_foo_bar /\ link = l_upup_images => r = NONE
        /\ file_path = doc_foo_bar /\ link = l_up_images => r = u_images
        /\ file_path = doc_foo_bar /\ link \in {l_images, l_cur_images}
               => r = u_foo_images
        /\ ~IsAbsolute(link) =>
               r = IF EscapesRoot(file_path, link) THEN NONE
                   ELSE NormalizedJoin(file_path, link)

C1_Witness ==
    /\ file_path = doc_foo_bar
    /\ \E i \in Visited :
           src.nodes[i].url = l_up_images /\ resolved[i] = u_images

\* a root-relative path without "." or ".." segments and without doubled or
\* trailing separators
CanonicalRootRelative(link) ==
    /\ IsAbsolute(link)
    /\ \A x \in {Split(Tail(link), SEP)[j] : j \in 1..Len(Split(Tail(link), SEP))} :
           x \notin {EMPTY, CUR, PARENT}

\* C2 as stated: resolving an already canonical root-relative path, from any
\* document, yields that path
C2_Original ==
    \A i \in Visited :
        CanonicalRootRelative(src.nodes[i].url) => resolved[i] = src.nodes[i].url

\* C2 amended: a canonical root-relative path is not resolved from any
\* document; written without its leading "/" and resolved from a document of
\* the content root it yields the root-relative path
C2_RootRelative ==
    \A i \in Visited :
        LET link == src.nodes[i].url IN
        /\ CanonicalRootRelative(link) => resolved[i] = NONE
        /\ CanonicalRootRelative(ROOT \o link) /\ DirSegs(file_path) = << >>
               => resolved[i] = ROOT \o link

C2_Witness ==
    /\ DirSegs(file_path) = << >>
    /\ \E i \in Visited :
           /\ src.nodes[i].url = seg_a \o ROOT \o seg_b_md
           /\ resolved[i] = ROOT \o seg_a \o ROOT \o seg_b_md

\* C3: get_abs_path returns no path for a link that begins with "/", and the
\* build of the document fails there
C3_LeadingSlashFails ==
    \A i \in 1..Len(resolved) :
        IsAbsolute(src.nodes[i].url) =>
            /\ resolved[i] = NONE
            /\ pc = "done" /\ idx = i /\ result # "Ok"
            /\ nodes[i].url = src.nodes[i].url

C3_Witness ==
    /\ file_path = doc_foo_bar
    /\ \E i \in 1..Len(resolved) :
           src.nodes[i].url = l_abs_images /\ resolved[i] = NONE

(***************************************************************************)
(* Properties of link rewriting and of blog file names                     *)
(***************************************************************************)
\* a target that points into the document it is written in
SameDocument(link) == link = EMPTY \/ link[1] \in {"#", "?"}

\* C4: an empty, fragment-only or query-only target is left as written by
\* the walk: not joined onto the directory of the document, not changed
C4_SameDocumentUntouched ==
    \A i \in 1..Len(resolved) :
        SameDocument(src.nodes[i].url) =>
            resolved[i] = EXTERNAL /\ nodes[i].url = src.nodes[i].url

\* the file name of the blog entry being built, its extension stripped
EntryName == SubSeq(file_path, Len(blog_dir) + 2, Len(file_path) - Len(DOT_MD))

AllDigits(str) == str # EMPTY /\ \A j \in 1..Len(str) : str[j] \in Digits

\* the value of a string of at most nine digits
RECURSIVE ValueOf(_)
ValueOf(str) ==
    IF str = EMPTY THEN 0
    ELSE 10 * ValueOf(SubSeq(str, 1, Len(str) - 1)) + DigitVal(str[Len(str)])

MonthLengths == <<31, 28, 31, 30, 31, 30, 31, 31, 30, 31, 30, 31>>

\* y-m-d is a date of the calendar
CalendarDate(y, m, d) ==
    /\ m \in 1..12
    /\ d >= 1
    /\ d <= MonthLengths[m]
           + (IF m = 2 /\ y % 4 = 0 /\ (y % 100 # 0 \/ y % 400 = 0) THEN 1 ELSE 0)

\* the positions of the first three hyphens of a name, 0 where there is none
Hyphen1(n) == IndexFrom(n, HYPHEN, 1)
Hyphen2(n) == IF Hyphen1(n) = 0 THEN 0 ELSE IndexFrom(n, HYPHEN, Hyphen1(n) + 1)
Hyphen3(n) == IF Hyphen2(n) = 0 THEN 0 ELSE IndexFrom(n, HYPHEN, Hyphen2(n) + 1)

YearPart(n) == SubSeq(n, 1, Hyphen1(n) - 1)
MonthPart(n) == SubSeq(n, Hyphen1(n) + 1, Hyphen2(n) - 1)
DayPart(n) == SubSeq(n, Hyphen2(n) + 1, Hyphen3(n) - 1)
SlugPart(n) == SubSeq(n, Hyphen3(n) + 1, Len(n))

\* the name is Y-M-D-rest, Y, M and D being numbers
DateShaped(n) ==
    /\ Hyphen3(n) > 0
    /\ AllDigits(YearPart(n)) /\ AllDigits(MonthPart(n)) /\ AllDigits(DayPart(n))

\* the three numbers of a date-shaped name form a date of the calendar
DateValid(n) ==
    /\ Len(YearPart(n)) <= 6 /\ Len(MonthPart(n)) <= 9 /\ Len(DayPart(n)) <= 9
    /\ ValueOf(YearPart(n)) <= 262142
    /\ CalendarDate(ValueOf(YearPart(n)), ValueOf(MonthPart(n)), ValueOf(DayPart(n)))

\* C5: parse_path on Y-M-D-rest with a valid calendar date returns the date
\* and, as slug, everything after the third hyphen; it fails for an invalid
\* month or day, for a name without slug component, for leading components
\* that are not numbers
C5_ParsePath ==
    blog /\ pc # "blog_entry_new" =>
        LET n == EntryName IN
        /\ DateShaped(n) /\ DateValid(n) =>
               /\ entry.ok
               /\ entry.date = <<ValueOf(YearPart(n)), ValueOf(MonthPart(n)),
                                 ValueOf(DayPart(n))>>
               /\ entry.slug = SlugPart(n)
        /\ DateShaped(n) /\ ~DateValid(n) => ~entry.ok
        /\ Hyphen3(n) = 0 => ~entry.ok
        /\ Hyphen3(n) > 0
               /\ (\E j \in 1..(Hyphen3(n) - 1) : n[j] \in Letters) => ~entry.ok
        /\ n = n_first_post =>
               entry.ok /\ entry.date = <<2024, 1, 5>> /\ entry.slug = s_my_first_post
        /\ n \in {n_bad_month, n_feb_30, n_no_slug, n_not_a_date} => ~entry.ok
        /\ ~entry.ok => pc = "done" /\ result # "Ok"

C5_Witness ==
    /\ blog /\ pc # "blog_entry_new"
    /\ EntryName = n_first_post
    /\ entry.ok /\ entry.slug = s_my_first_post

\* the name matches ^\d{4}-\d{2}-\d{2}-.+$
MatchesGrammar(n) ==
    /\ Len(n) >= 12
    /\ \A j \in {1, 2, 3, 4, 6, 7, 9, 10} : n[j] \in Digits
    /\ \A j \in {5, 8, 11} : n[j] = HYPHEN

\* C6: a blog file name is accepted only if it matches ^\d{4}-\d{2}-\d{2}-.+$
C6_GrammarOnly ==
    blog /\ entry.ok => MatchesGrammar(EntryName)

\* the document has a title in its metadata
HasMetadataTitle == src.fm.present /\ src.fm.valid /\ src.fm.title # NONE

\* C7: the title of the metadata comes before the level-1 heading, the
\* heading is the title when the metadata has none, and a document with
\* neither fails to build
C7_TitlePrecedence ==
    /\ result = "Ok" /\ HasMetadataTitle => title = src.fm.title
    /\ result = "Ok" /\ ~HasMetadataTitle => src.h1 # NONE /\ title = src.h1
    /\ pc = "done" /\ ~HasMetadataTitle /\ src.h1 = NONE =>
           result # "Ok" /\ title = NONE
    /\ result = "title not found" <=>
           /\ pc = "done" /\ idx > Len(nodes)
           /\ src.readable /\ (blog => entry.ok)
           /\ src.fm.present => src.fm.valid
           /\ ~HasMetadataTitle /\ src.h1 = NONE

C7_Witness ==
    /\ result = "Ok"
    /\ src.fm.title = t_A /\ src.h1 = t_B
    /\ title = t_A

\* the plain links the walk has rewritten
Rewritten ==
    {i \in Visited : src.nodes[i].kind = "Link" /\ resolved[i] # NONE
                      /\ (i < idx \/ result = "Ok")}

\* the root-relative path of the source file of a blog entry
BlogSource(name) == ROOT \o BlogPath(name)

\* C8: a plain link to the source file 2024-01-05-my-first-post.md of a blog
\* entry, in any document, is rewritten to /blog/my-first-post
C8_BlogCrossLink ==
    \A i \in Visited :
        src.nodes[i].kind = "Link" /\ resolved[i] = BlogSource(n_first_post) =>
            i \in Rewritten /\ nodes[i].url = u_blog_first_post

C8_Witness ==
    /\ file_path = doc_foo_bar
    /\ \E i \in Rewritten :
           /\ src.nodes[i].url = l_up_blog_post
           /\ nodes[i].url = u_blog_first_post

\* C9 as stated: the link /about.md is rewritten to /about, and no plain link
\* whose resolved path ended in .md still ends in .md after rewriting
C9_Original ==
    /\ \A i \in 1..Len(resolved) :
           src.nodes[i].kind = "Link" /\ src.nodes[i].url = l_abs_about =>
               nodes[i].url = u_about
    /\ \A i \in Rewritten :
           IsSuffix(DOT_MD, resolved[i]) => ~IsSuffix(DOT_MD, nodes[i].url)

\* the path ends in .md and its file name is more than that
HasMdExtension(path) ==
    IsSuffix(DOT_MD, path) /\ path[Len(path) - Len(DOT_MD)] # SEP

\* C9 amended: a plain link that resolves to a page outside /blog/ is
\* rewritten to the resolved path with one .md extension removed, about.md in
\* a document of the content root to /about; the link /about.md does not
\* resolve
C9_PageLink ==
    /\ \A i \in Rewritten :
           ~IsPrefix(BLOG_PREFIX, resolved[i]) =>
               nodes[i].url =
                   IF HasMdExtension(resolved[i])
                   THEN SubSeq(resolved[i], 1, Len(resolved[i]) - Len(DOT_MD))
                   ELSE resolved[i]
    /\ \A i \in Rewritten :
           DirSegs(file_path) = << >> /\ src.nodes[i].url = l_about =>
               nodes[i].url = u_about
    /\ \A i \in 1..Len(resolved) :
           src.nodes[i].url = l_abs_about => i \notin Rewritten

C9_Witness ==
    /\ file_path = doc_bar
    /\ \E i \in Rewritten : src.nodes[i].url = l_about /\ nodes[i].url = u_about

\* C10: when a link or image target resolves outside the content root the
\* build fails at that node; the walk never goes past it and the document is
\* never produced
C10_EscapeFailsBuild ==
    \A i \in 1..Len(src.nodes) :
        ~is_url(src.nodes[i].url) /\ EscapesRoot(file_path, src.nodes[i].url) =>
            /\ idx <= i
            /\ result # "Ok"
            /\ pc = "done" /\ idx = i =>
                   result = "the path is points outside current directory"

C10_Witness ==
    /\ pc = "done" /\ idx = 2
    /\ src.nodes[2] = Node("Image", l_upup_images)
    /\ nodes[1].url # src.nodes[1].url
    /\ result = "the path is points outside current directory"

(***************************************************************************)
(* git_repo.rs: the commit graph and GitRepo::commits_for_file             *)
(*                                                                         *)
(* A commit is [parents, time, tree]: parents are positions in             *)
(* repo.commits, the first parent first; time is the commit time in        *)
(* seconds; tree maps a path to the blob it holds there (0: no such file). *)
(***************************************************************************)
Commit(ps, t, tr) == [parents |-> ps, time |-> t, tree |-> tr]

EmptyTree == [p \in {} |-> 0]

\* the blob a tree holds at a path
Blob(tree, path) == IF path \in DOMAIN tree THEN tree[path] ELSE 0

\* the commits a walk that starts at the given ones comes to
RECURSIVE Reach(_, _, _)
Reach(r, todo, seen) ==
    IF todo = {} THEN seen
    ELSE LET c == CHOOSE c \in todo : TRUE
             ps == {r.commits[c].parents[j] : j \in 1..Len(r.commits[c].parents)} IN
         Reach(r, (todo \cup ps) \ (seen \cup {c}), seen \cup {c})

\* the ways of listing a set
Listings(S) ==
    {o \in [1..Cardinality(S) -> S] : \A i, j \in 1..Cardinality(S) : i # j => o[i] # o[j]}

\* as Revwalks, the walk not being sorted by time
RevwalksUnsorted(r) == Listings(Reach(r, {r.head}, {}))

\* revwalk with push_head and Sort::TIME: every commit reachable from HEAD,
\* latest commit time first, commits of the same time in either order
Revwalks(r) ==
    {o \in Listings(Reach(r, {r.head}, {})) :
        \A i, j \in 1..Len(o) :
            i < j => r.commits[o[i]].time >= r.commits[o[j]].time}

\* as DiffHasDeltas, a merge being compared with its last parent
DiffHasDeltasLastParent(r, c, path) ==
    LET commit == r.commits[c]
        parent_tree == IF Len(commit.parents) > 0
                       THEN r.commits[commit.parents[Len(commit.parents)]].tree
                       ELSE EmptyTree IN
    Blob(parent_tree, path) # Blob(commit.tree, path)

\* diff_tree_to_tree of the first parent's tree (no tree for a root commit)
\* and the commit's tree, restricted to the path, has deltas
DiffHasDeltas(r, c, path) ==
    LET commit == r.commits[c]
        parent_tree == IF Len(commit.parents) > 0
                       THEN r.commits[commit.parents[1]].tree
                       ELSE EmptyTree IN
    Blob(parent_tree, path) # Blob(commit.tree, path)

\* the walk cannot be set up or a commit cannot be read
LookupFails(r) == r.corrupt \/ r.head = 0

\* as commits_for_file, the commits of the walk being all returned
commits_for_file_unfiltered(r, walk, path) == walk

\* GitRepo::commits_for_file over one order of the walk
commits_for_file(r, walk, path) ==
    SelectSeq(walk, LAMBDA c : DiffHasDeltas(r, c, path))

(***************************************************************************)
(* generator.rs: Generator::build                                          *)
(***************************************************************************)
\* "home.md"
HOME_MD == <<"h", "o", "m", "e", ".", "m", "d">>
\* "not_found.md"
NOT_FOUND_MD == <<"n", "o", "t", "_", "f", "o", "u", "n", "d", ".", "m", "d">>
\* "blog"
BLOG_DIR == <<"b", "l", "o", "g">>
\* "static"
STATIC_DIR == <<"s", "t", "a", "t", "i", "c">>
\* "index.html"
INDEX_HTML == <<"i", "n", "d", "e", "x", ".", "h", "t", "m", "l">>
\* "not_found.html"
NOT_FOUND_HTML ==
    <<"n", "o", "t", "_", "f", "o", "u", "n", "d", ".", "h", "t", "m", "l">>
\* "blog/index.html"
BLOG_INDEX_HTML ==
    <<"b", "l", "o", "g", "/", "i", "n", "d", "e", "x", ".", "h", "t", "m",
      "l">>
\* "blog/tags/"
BLOG_TAGS == <<"b", "l", "o", "g", "/", "t", "a", "g", "s", "/">>
\* "/index.html"
SLASH_INDEX_HTML == <<"/", "i", "n", "d", "e", "x", ".", "h", "t", "m", "l">>
\* "blog/rss.xml"
RSS_XML == <<"b", "l", "o", "g", "/", "r", "s", "s", ".", "x", "m", "l">>
\* "https://example.com"
site_url ==
    <<"h", "t", "t", "p", "s", ":", "/", "/", "e", "x", "a", "m", "p", "l",
      "e", ".", "c", "o", "m">>
\* ".git"
DOT_GIT == <<".", "g", "i", "t">>
\* ".cspell.yaml"
CSPELL_YAML == <<".", "c", "s", "p", "e", "l", "l", ".", "y", "a", "m", "l">>
\* "README.md"
README_MD == <<"R", "E", "A", "D", "M", "E", ".", "m", "d">>
\* "config.yaml"
CONFIG_YAML == <<"c", "o", "n", "f", "i", "g", ".", "y", "a", "m", "l">>
\* "blog/2024-01-02-c.md"
p_post_c ==
    <<"b", "l", "o", "g", "/", "2", "0", "2", "4", "-", "0", "1", "-", "0",
      "2", "-", "c", ".", "m", "d">>
\* "blog/2024-01-05-a.md"
p_post_a ==
    <<"b", "l", "o", "g", "/", "2", "0", "2", "4", "-", "0", "1", "-", "0",
      "5", "-", "a", ".", "m", "d">>
\* "blog/2024-01-05-b.md"
p_post_b ==
    <<"b", "l", "o", "g", "/", "2", "0", "2", "4", "-", "0", "1", "-", "0",
      "5", "-", "b", ".", "m", "d">>
\* "blog/2023-12-31-d.md"
p_post_d ==
    <<"b", "l", "o", "g", "/", "2", "0", "2", "3", "-", "1", "2", "-", "3",
      "1", "-", "d", ".", "m", "d">>
\* "blog/notes.md"
p_notes == <<"b", "l", "o", "g", "/", "n", "o", "t", "e", "s", ".", "m", "d">>
\* "blog/2024-13-05-x.md"
p_bad_month ==
    <<"b", "l", "o", "g", "/", "2", "0", "2", "4", "-", "1", "3", "-", "0",
      "5", "-", "x", ".", "m", "d">>
\* "blog/sub/2024-01-05-e.md"
p_nested ==
    <<"b", "l", "o", "g", "/", "s", "u", "b", "/", "2", "0", "2", "4", "-",
      "0", "1", "-", "0", "5", "-", "e", ".", "m", "d">>
\* "about.md"
p_about == <<"a", "b", "o", "u", "t", ".", "m", "d">>
\* "images/logo.png"
p_logo ==
    <<"i", "m", "a", "g", "e", "s", "/", "l", "o", "g", "o", ".", "p", "n",
      "g">>
\* "a"
tag_a == <<"a">>
\* "b"
tag_b == <<"b">>

\* Generator::new: the paths the walk leaves out
Skip == {DOT_GIT, CSPELL_YAML, README_MD, CONFIG_YAML}

\* Generator::md_to_html_path
md_to_html_path(md) == PathJoin(SetExtensionEmpty(md), INDEX_HTML)

\* the path build_blog_tag_home writes
TagHomePath(tag) == BLOG_TAGS \o tag \o SLASH_INDEX_HTML

NoName == [ok |-> FALSE, date |-> <<0, 0, 0>>, slug |-> EMPTY]

\* markdown::parse_blog_file_name: [ok, date, slug]
parse_blog_file_name(s) ==
    LET split == SplitN(s, HYPHEN, 4) IN
    IF Len(split) # 4 THEN NoName
    ELSE LET year == ParseInt(split[1], TRUE, I32MaxDigits)
             month == ParseInt(split[2], FALSE, U32MaxDigits)
             day == ParseInt(split[3], FALSE, U32MaxDigits) IN
         IF year.ok /\ month.ok /\ day.ok
            /\ from_ymd_opt(year.val, month.val, day.val)
         THEN [ok |-> TRUE, date |-> <<year.val, month.val, day.val>>,
               slug |-> split[4]]
         ELSE NoName

\* markdown::read_md of a source file: [ok, title, tags]
read_md(file) == [ok |-> file.ok, title |-> file.title, tags |-> file.tags]

\* as BlogName, a name the parser turns down counting as an undated entry
BlogNameLenient(rel_md_path) ==
    IF Extension(rel_md_path) # MD THEN NoName
    ELSE IF PathParent(rel_md_path) = NONE \/ PathParent(rel_md_path) # BLOG_DIR
    THEN NoName
    ELSE LET p == SetExtensionEmpty(rel_md_path) IN
         IF FileName(p) = NONE THEN NoName
         ELSE IF parse_blog_file_name(FileName(p)).ok
         THEN parse_blog_file_name(FileName(p))
         ELSE [ok |-> TRUE, date |-> <<1970, 1, 1>>, slug |-> FileName(p)]

\* the first checks of try_get_blog_entry: the name of a blog entry, or none
\* for a file that is no Markdown file, does not lie in the blog directory
\* itself, or has a name the parser turns down
BlogName(rel_md_path) ==
    IF Extension(rel_md_path) # MD THEN NoName
    ELSE IF PathParent(rel_md_path) = NONE \/ PathParent(rel_md_path) # BLOG_DIR
    THEN NoName
    ELSE LET p == SetExtensionEmpty(rel_md_path) IN
         IF FileName(p) = NONE THEN NoName
         ELSE parse_blog_file_name(FileName(p))

NoCommit == [some |-> FALSE, id |-> 0, time |-> 0]

\* the rest of try_get_blog_entry: the entry of a file from its name, the
\* commits of its history and its document
NewBlogEntry(rel_md_path, name, history, r, markdown) ==
    [rel_md_path |-> rel_md_path,
     rel_path    |-> SetExtensionEmpty(rel_md_path),
     time        |-> name.date,
     slug        |-> name.slug,
     last_commit |-> IF history = << >> THEN NoCommit
                     ELSE [some |-> TRUE, id |-> history[1],
                           time |-> r.commits[history[1]].time],
     title       |-> markdown.title,
     tags        |-> markdown.tags]

\* chrono::NaiveDate: a earlier than b
DateBefore(a, b) ==
    \/ a[1] < b[1]
    \/ a[1] = b[1] /\ a[2] < b[2]
    \/ a[1] = b[1] /\ a[2] = b[2] /\ a[3] < b[3]

\* as InsertByDate, the entry going in front of the entries of its own date
InsertByDateInFront(sorted, e) ==
    LET k == Cardinality({i \in 1..Len(sorted) : DateBefore(e.time, sorted[i].time)}) IN
    SubSeq(sorted, 1, k) \o <<e>> \o SubSeq(sorted, k + 1, Len(sorted))

\* one step of the stable sort on Reverse(time): the entry goes behind every
\* entry of a later or the same date
InsertByDate(sorted, e) ==
    LET k == Cardinality({i \in 1..Len(sorted) : ~DateBefore(sorted[i].time, e.time)}) IN
    SubSeq(sorted, 1, k) \o <<e>> \o SubSeq(sorted, k + 1, Len(sorted))

\* as SortByReverseTime, the list being left in the order of the scan
Unsorted(list) == list

\* all_blog.sort_by_key(|x| Reverse(x.time))
RECURSIVE SortByReverseTime(_)
SortByReverseTime(list) ==
    IF list = << >> THEN << >>
    ELSE InsertByDate(SortByReverseTime(SubSeq(list, 1, Len(list) - 1)),
                      list[Len(list)])

\* BlogEntry::as_page
as_page(e) ==
    [publish_time |-> e.time, title |-> e.title, rel_path |-> e.rel_path,
     tags |-> e.tags]

AsPages(list) == [i \in 1..Len(list) |-> as_page(list[i])]

\* as PushTags, an entry being filed under its first tag only
RECURSIVE PushFirstTag(_, _, _)
PushFirstTag(ret, b, tags) ==
    IF tags = << >> THEN ret
    ELSE LET t == Head(tags) IN
         IF t \in DOMAIN ret THEN [ret EXCEPT ![t] = Append(@, b)]
         ELSE ret @@ (t :> <<b>>)

\* the inner loop of process_tag_blog_list
RECURSIVE PushTags(_, _, _)
PushTags(ret, b, tags) ==
    IF tags = << >> THEN ret
    ELSE LET t == Head(tags)
             next == IF t \in DOMAIN ret THEN [ret EXCEPT ![t] = Append(@, b)]
                     ELSE ret @@ (t :> <<b>>) IN
         PushTags(next, b, Tail(tags))

\* Generator::process_tag_blog_list
RECURSIVE TagBlogListFrom(_, _)
TagBlogListFrom(ret, pages) ==
    IF pages = << >> THEN ret
    ELSE TagBlogListFrom(PushTags(ret, Head(pages), Head(pages).tags), Tail(pages))

process_tag_blog_list(pages) == TagBlogListFrom([t \in {} |-> << >>], pages)

\* as LastUpdateTime, the time of the first entry that has a commit
RECURSIVE FirstUpdateTime(_)
FirstUpdateTime(list) ==
    IF list = << >> THEN [some |-> FALSE, time |-> 0]
    ELSE IF Head(list).last_commit.some
    THEN [some |-> TRUE, time |-> Head(list).last_commit.time]
    ELSE FirstUpdateTime(Tail(list))

\* build_rss: filter_map(last_commit).map(time).max()
RECURSIVE LastUpdateTime(_)
LastUpdateTime(list) ==
    IF list = << >> THEN [some |-> FALSE, time |-> 0]
    ELSE LET rest == LastUpdateTime(Tail(list))
             c == Head(list).last_commit IN
         IF ~c.some THEN rest
         ELSE IF rest.some /\ rest.time > c.time THEN rest
         ELSE [some |-> TRUE, time |-> c.time]

\* as to_rss_item, the link being made of the slug of the entry
to_rss_item_slug_link(e) ==
    LET link == site_url \o ROOT \o BLOG_DIR \o ROOT \o e.slug IN
    [title |-> e.title, link |-> link, guid |-> link, pub_date |-> e.time,
     categories |-> e.tags]

\* Generator::to_rss_item
to_rss_item(e) ==
    LET link == site_url \o ROOT \o e.rel_path IN
    [title |-> e.title, link |-> link, guid |-> link, pub_date |-> e.time,
     categories |-> e.tags]

(***************************************************************************)
(* The source trees and repositories a build is run on                     *)
(***************************************************************************)
\* a file the walk comes to: its path, whether it can be read (a document:
\* read_md succeeds; any other file: the copy succeeds), and the title and
\* the tags of its document
File(p, o, g) == [path |-> p, ok |-> o, title |-> t_A, tags |-> g]

f_home == File(HOME_MD, TRUE, << >>)
f_not_found == File(NOT_FOUND_MD, TRUE, << >>)
f_post_a == File(p_post_a, TRUE, <<tag_a, tag_b>>)

SourceFiles ==
    {File(p_post_c, TRUE, <<tag_a>>),
     f_post_a,
     File(p_post_b, TRUE, <<tag_b>>),
     File(p_post_b, FALSE, <<tag_b>>),
     File(p_post_d, TRUE, <<tag_a, tag_a>>),
     File(p_notes, TRUE, <<tag_a>>),
     File(p_bad_month, FALSE, << >>),
     File(p_logo, TRUE, << >>),
     File(p_logo, FALSE, << >>),
     File(README_MD, FALSE, << >>)}

\* the most files of a source tree besides its two special pages
MaxFiles == 3

\* the orders in which read_dir may hand out some files of distinct paths
Scans ==
    UNION {{s \in [1..n -> SourceFiles] :
               \A i, j \in 1..n : i # j => s[i].path # s[j].path} : n \in 0..MaxFiles}

Repo(c, h, x) == [commits |-> c, head |-> h, corrupt |-> x]

\* a first commit that holds none of the blog files
repo_new == Repo(<<Commit(<< >>, 10, EmptyTree)>>, 1, FALSE)

\* three commits in a line: a and c are added, a is edited, b is added
HistoryCommits ==
    <<Commit(<< >>, 10, (p_post_a :> 1) @@ (p_post_c :> 1)),
      Commit(<<1>>, 20, (p_post_a :> 2) @@ (p_post_c :> 1)),
      Commit(<<2>>, 30, (p_post_a :> 2) @@ (p_post_c :> 1) @@ (p_post_b :> 1))>>

repo_history == Repo(HistoryCommits, 3, FALSE)
repo_corrupt == Repo(HistoryCommits, 3, TRUE)

\* a repository without a commit: HEAD names a branch that is not born
repo_unborn == NoRepo

\* the most commits of a generated repository
MaxCommits == 3

\* the parents a commit at position i can have: none, one, or two in order
ParentLists(i) ==
    {<< >>} \cup {<<j>> : j \in 1..(i - 1)}
            \cup {q \in (1..(i - 1)) \X (1..(i - 1)) : q[1] # q[2]}

\* commit times: rising with the position, falling, or all the same
TimeMaps(n) ==
    {[i \in 1..n |-> i], [i \in 1..n |-> n + 1 - i], [i \in 1..n |-> 1]}

\* the contents of the one blog file over the commits: none (0), a first
\* content (1), and a second one (2) once the first has been there
Contents(n) ==
    {bl \in [1..n -> 0..2] :
        \A i \in 1..n : bl[i] = 2 => \E j \in 1..(i - 1) : bl[j] = 1}

\* repositories of up to MaxCommits commits whose trees hold the one blog
\* file with one of two contents, or not at all; HEAD is the last commit
GeneratedRepos ==
    UNION {{Repo([i \in 1..n |->
                    Commit(ps[i], tm[i],
                           IF bl[i] = 0 THEN EmptyTree ELSE (p_post_a :> bl[i]))],
                 n, FALSE) :
               ps \in {q \in [1..n -> ParentLists(n)] :
                          \A i \in 1..n : q[i] \in ParentLists(i)},
               tm \in TimeMaps(n),
               bl \in Contents(n)} : n \in 1..MaxCommits}

GenInput(s, r) == [scan |-> s, repo |-> r]

\* every scan, on a repository with history and on one without
ScanInputs ==
    {GenInput(s \o <<f_home, f_not_found>>, r) :
        s \in Scans, r \in {repo_new, repo_history}}

\* two files on a repository that cannot be read
CorruptInputs ==
    {GenInput(<<q[1], q[2], f_home, f_not_found>>, repo_corrupt) :
        q \in {r \in SourceFiles \X SourceFiles : r[1].path # r[2].path}}

\* a source tree that lacks a special page, and one with a Markdown file in a
\* directory of the blog directory
BareInputs ==
    {GenInput(s, repo_history) :
        s \in {<<f_post_a, f_not_found>>, <<f_home>>,
               <<File(p_nested, TRUE, <<tag_b>>), f_home, f_not_found>>}}

\* one blog file on every generated repository
HistoryInputs ==
    {GenInput(<<f_post_a, f_home, f_not_found>>, r) :
        r \in GeneratedRepos \cup {repo_unborn}}

GenInputs == ScanInputs \cup CorruptInputs \cup BareInputs \cup HistoryInputs

(***************************************************************************)
(* Generator::build as a state machine                                     *)
(***************************************************************************)
\* no document is being built
DocIdle ==
    /\ file_path = EMPTY
    /\ blog = FALSE
    /\ src = Source(FALSE, << >>, NoFrontmatter, NONE, NONE)
    /\ entry = Failed("")
    /\ nodes = << >>
    /\ resolved = << >>
    /\ idx = 1
    /\ frontmatter = DefaultFrontmatter
    /\ title = NONE
    /\ description = NONE
    /\ pc = "idle"
    /\ result = "pending"

GenInit ==
    \E in \in GenInputs :
        /\ scan = in.scan
        /\ repo = in.repo
        /\ pos = 1
        /\ all_blog = << >>
        /\ commits = << >>
        /\ written = {}
        /\ tag_blog_list = [t \in {} |-> << >>]
        /\ feed = NoFeed
        /\ gpc = "start"
        /\ gresult = "pending"
        /\ DocIdle
        /\ LibIdle
        /\ LoopIdle

GenFail(e) == gpc' = "done" /\ gresult' = e

\* build: the destination directory and the static directory
BuildStart ==
    /\ gpc = "start"
    /\ written' = written \cup {STATIC_DIR}
    /\ gpc' = "scan"
    /\ UNCHANGED <<scan, repo, pos, all_blog, commits, tag_blog_list, feed, gresult>>
    /\ dst_exists' = TRUE
    /\ UNCHANGED <<docvars, runs, removed, loopvars>>

\* iter_dir has a file left
AtFile == gpc = "scan" /\ pos <= Len(scan)

\* iter_dir: a path of the skip set
SkipFile ==
    /\ AtFile
    /\ scan[pos].path \in Skip
    /\ pos' = pos + 1
    /\ UNCHANGED <<scan, repo, all_blog, commits, written, tag_blog_list, feed,
                   gpc, gresult>>
    /\ dst_exists' = dst_exists
    /\ UNCHANGED <<docvars, runs, removed, loopvars>>

\* as HandleBlogEntry, a failed lookup counting as an empty history
HandleBlogEntryLenient ==
    /\ AtFile
    /\ scan[pos].path \notin Skip
    /\ Extension(scan[pos].path) = MD
    /\ BlogName(scan[pos].path).ok
    /\ LET file == scan[pos] IN
       \E walk \in (IF LookupFails(repo) THEN {<< >>} ELSE Revwalks(repo)) :
            /\ commits' = commits_for_file(repo, walk, file.path)
            /\ IF read_md(file).ok
               THEN /\ all_blog' = Append(all_blog,
                           NewBlogEntry(file.path, BlogName(file.path), commits',
                                        repo, read_md(file)))
                    /\ written' = written \cup
                           {md_to_html_path(SetExtensionEmpty(file.path))}
                    /\ pos' = pos + 1
                    /\ UNCHANGED <<gpc, gresult>>
               ELSE /\ GenFail("read_md")
                    /\ UNCHANGED <<pos, all_blog, written>>
    /\ UNCHANGED <<scan, repo, tag_blog_list, feed>>
    /\ dst_exists' = dst_exists
    /\ UNCHANGED <<docvars, runs, removed, loopvars>>

\* handle_file: a Markdown file that try_get_blog_entry takes for a blog
\* entry; the walk of the history lists commits of one time in any order
HandleBlogEntry ==
    /\ AtFile
    /\ scan[pos].path \notin Skip
    /\ Extension(scan[pos].path) = MD
    /\ BlogName(scan[pos].path).ok
    /\ LET file == scan[pos] IN
       IF LookupFails(repo)
       THEN /\ GenFail("commits_for_file")
            /\ UNCHANGED <<pos, all_blog, commits, written>>
       ELSE \E walk \in Revwalks(repo) :
            /\ commits' = commits_for_file(repo, walk, file.path)
            /\ IF read_md(file).ok
               THEN /\ all_blog' = Append(all_blog,
                           NewBlogEntry(file.path, BlogName(file.path), commits',
                                        repo, read_md(file)))
                    /\ written' = written \cup
                           {md_to_html_path(SetExtensionEmpty(file.path))}
                    /\ pos' = pos + 1
                    /\ UNCHANGED <<gpc, gresult>>
               ELSE /\ GenFail("read_md")
                    /\ UNCHANGED <<pos, all_blog, written>>
    /\ UNCHANGED <<scan, repo, tag_blog_list, feed>>
    /\ dst_exists' = dst_exists
    /\ UNCHANGED <<docvars, runs, removed, loopvars>>

\* as HandleMarkdown, a document that cannot be read being left out
HandleMarkdownSkipBroken ==
    /\ AtFile
    /\ scan[pos].path \notin Skip
    /\ Extension(scan[pos].path) = MD
    /\ ~BlogName(scan[pos].path).ok
    /\ IF read_md(scan[pos]).ok
       THEN /\ written' = written \cup {md_to_html_path(scan[pos].path)}
            /\ pos' = pos + 1
            /\ UNCHANGED <<gpc, gresult>>
       ELSE /\ pos' = pos + 1
            /\ UNCHANGED <<written, gpc, gresult>>
    /\ UNCHANGED <<scan, repo, all_blog, commits, tag_blog_list, feed>>
    /\ dst_exists' = dst_exists
    /\ UNCHANGED <<docvars, runs, removed, loopvars>>

\* handle_file: any other Markdown file
HandleMarkdown ==
    /\ AtFile
    /\ scan[pos].path \notin Skip
    /\ Extension(scan[pos].path) = MD
    /\ ~BlogName(scan[pos].path).ok
    /\ IF read_md(scan[pos]).ok
       THEN /\ written' = written \cup {md_to_html_path(scan[pos].path)}
            /\ pos' = pos + 1
            /\ UNCHANGED <<gpc, gresult>>
       ELSE /\ GenFail("read_md")
            /\ UNCHANGED <<pos, written>>
    /\ UNCHANGED <<scan, repo, all_blog, commits, tag_blog_list, feed>>
    /\ dst_exists' = dst_exists
    /\ UNCHANGED <<docvars, runs, removed, loopvars>>

\* handle_file: a file that is copied
HandleCopy ==
    /\ AtFile
    /\ scan[pos].path \notin Skip
    /\ Extension(scan[pos].path) # MD
    /\ IF scan[pos].ok
       THEN /\ written' = written \cup {scan[pos].path}
            /\ pos' = pos + 1
            /\ UNCHANGED <<gpc, gresult>>
       ELSE /\ GenFail("copy")
            /\ UNCHANGED <<pos, written>>
    /\ UNCHANGED <<scan, repo, all_blog, commits, tag_blog_list, feed>>
    /\ dst_exists' = dst_exists
    /\ UNCHANGED <<docvars, runs, removed, loopvars>>

\* build: the copies of the home page and of the not-found page
CopySpecialPages ==
    /\ gpc = "scan"
    /\ pos > Len(scan)
    /\ IF md_to_html_path(HOME_MD) \notin written
       THEN GenFail("copy") /\ UNCHANGED written
       ELSE IF md_to_html_path(NOT_FOUND_MD) \notin written
       THEN GenFail("copy") /\ written' = written \cup {INDEX_HTML}
       ELSE /\ written' = written \cup {INDEX_HTML, NOT_FOUND_HTML}
            /\ gpc' = "sort"
            /\ UNCHANGED gresult
    /\ UNCHANGED <<scan, repo, pos, all_blog, commits, tag_blog_list, feed>>
    /\ dst_exists' = dst_exists
    /\ UNCHANGED <<docvars, runs, removed, loopvars>>

\* build: the sort of the entries and build_blog_home
SortAndBuildBlogHome ==
    /\ gpc = "sort"
    /\ all_blog' = SortByReverseTime(all_blog)
    /\ written' = written \cup {BLOG_INDEX_HTML}
    /\ gpc' = "tags"
    /\ UNCHANGED <<scan, repo, pos, commits, tag_blog_list, feed, gresult>>
    /\ dst_exists' = dst_exists
    /\ UNCHANGED <<docvars, runs, removed, loopvars>>

\* build: process_tag_blog_list and a build_blog_tag_home for every tag
BuildTagHomes ==
    /\ gpc = "tags"
    /\ tag_blog_list' = process_tag_blog_list(AsPages(all_blog))
    /\ written' = written \cup {TagHomePath(t) : t \in DOMAIN tag_blog_list'}
    /\ gpc' = "rss"
    /\ UNCHANGED <<scan, repo, pos, all_blog, commits, feed, gresult>>
    /\ dst_exists' = dst_exists
    /\ UNCHANGED <<docvars, runs, removed, loopvars>>

\* as BuildRss, a feed without history being dated 0
BuildRssAlways ==
    /\ gpc = "rss"
    /\ LET last_update_time == LastUpdateTime(all_blog) IN
       IF FALSE
       THEN UNCHANGED <<feed, written>>
       ELSE /\ feed' = [written |-> TRUE,
                        pub_date |-> last_update_time.time,
                        last_build_date |-> last_update_time.time,
                        items |-> [i \in 1..Len(all_blog) |-> to_rss_item(all_blog[i])]]
            /\ written' = written \cup {RSS_XML}
    /\ gpc' = "done"
    /\ gresult' = "Ok"
    /\ UNCHANGED <<scan, repo, pos, all_blog, commits, tag_blog_list>>
    /\ dst_exists' = dst_exists
    /\ UNCHANGED <<docvars, runs, removed, loopvars>>

\* build_rss, and the end of build
BuildRss ==
    /\ gpc = "rss"
    /\ LET last_update_time == LastUpdateTime(all_blog) IN
       IF ~last_update_time.some
       THEN UNCHANGED <<feed, written>>
       ELSE /\ feed' = [written |-> TRUE,
                        pub_date |-> last_update_time.time,
                        last_build_date |-> last_update_time.time,
                        items |-> [i \in 1..Len(all_blog) |-> to_rss_item(all_blog[i])]]
            /\ written' = written \cup {RSS_XML}
    /\ gpc' = "done"
    /\ gresult' = "Ok"
    /\ UNCHANGED <<scan, repo, pos, all_blog, commits, tag_blog_list>>
    /\ dst_exists' = dst_exists
    /\ UNCHANGED <<docvars, runs, removed, loopvars>>

GenNext ==
    \/ BuildStart
    \/ SkipFile
    \/ HandleBlogEntry
    \/ HandleMarkdown
    \/ HandleCopy
    \/ CopySpecialPages
    \/ SortAndBuildBlogHome
    \/ BuildTagHomes
    \/ BuildRss

GenSpec == GenInit /\ [][GenNext]_vars

(***************************************************************************)
(* Claims about the build of the site                                      *)
(***************************************************************************)
\* the positions of the scan that hold a file taken for a blog entry
EntryFiles ==
    {i \in 1..Len(scan) : scan[i].path \notin Skip /\ BlogName(scan[i].path).ok}

\* the build has failed
BuildFailed == gresult \notin {"pending", "Ok"}

\* the entry collected for a file, if there is one
EntriesOf(path) == {k \in 1..Len(all_blog) : all_blog[k].rel_md_path = path}

\* the position of the file whose history was looked up last, 0 if none was
LastLookup ==
    LET looked == {i \in EntryFiles : i < pos \/ (i = pos /\ gresult = "read_md")} IN
    IF looked = {} THEN 0 ELSE CHOOSE i \in looked : \A j \in looked : j <= i

\* commit d is commit c or one of its ancestors
RECURSIVE IsAncestorOrSelf(_, _)
IsAncestorOrSelf(d, c) ==
    \/ d = c
    \/ \E j \in 1..Len(repo.commits[c].parents) :
           IsAncestorOrSelf(d, repo.commits[c].parents[j])

\* the commits reachable from the tip
Reachable == {c \in 1..Len(repo.commits) : IsAncestorOrSelf(c, repo.head)}

\* what commit c holds at a path, 0 for nothing
ContentAt(c, path) ==
    IF path \in DOMAIN repo.commits[c].tree THEN repo.commits[c].tree[path] ELSE 0

\* commit c holds at the path something else than its j-th parent does
DiffersFromParent(c, j, path) ==
    ContentAt(c, path) # ContentAt(repo.commits[c].parents[j], path)

\* commit c changed the path: against its first parent, a root commit against
\* the empty tree
Touches(c, path) ==
    IF repo.commits[c].parents = << >> THEN ContentAt(c, path) # 0
    ELSE DiffersFromParent(c, 1, path)

\* the name of a file, its extension stripped
NameOf(path) == SubSeq(path, Len(BLOG_DIR) + 2, Len(path) - Len(DOT_MD))

\* a Markdown file right in the blog directory whose name is not Y-M-D-rest
\* with three numbers, or whose numbers are no date of the calendar
Misnamed(path) ==
    /\ IsPrefix(BLOG_DIR \o ROOT, path)
    /\ IsSuffix(DOT_MD, path)
    /\ IndexFrom(NameOf(path), SEP, 1) = 0
    /\ LET n == NameOf(path) IN
       \/ Hyphen3(n) = 0
       \/ \E j \in 1..(Hyphen3(n) - 1) : n[j] \in Letters
       \/ DateShaped(n) /\ ~DateValid(n)

\* C11 as stated: a misnamed Markdown file of the blog directory fails the
\* build, so that the scan never gets past one
C11_Original ==
    \A i \in 1..Len(scan) : Misnamed(scan[i].path) => ~(i < pos)

\* C11 amended: a misnamed Markdown file of the blog directory is no blog
\* entry; handling it looks up no history and collects no entry, and when the
\* file can be read it is built as a page like any other Markdown file and
\* the scan goes on
C11_MisnamedIsPage ==
    [][AtFile /\ Misnamed(scan[pos].path) =>
          /\ commits' = commits
          /\ all_blog' = all_blog
          /\ IF scan[pos].ok
             THEN /\ pos' = pos + 1
                  /\ gresult' = "pending"
                  /\ written' = written \cup
                        {BLOG_DIR \o ROOT \o NameOf(scan[pos].path) \o SLASH_INDEX_HTML}
             ELSE gresult' = "read_md" /\ written' = written]_vars

C11_Witness ==
    /\ gresult = "Ok"
    /\ \E i \in 1..Len(scan) : scan[i].path = p_notes /\ Misnamed(scan[i].path)
    /\ BLOG_DIR \o ROOT \o NameOf(p_notes) \o SLASH_INDEX_HTML \in written
    /\ all_blog = << >>

\* no reachable commit changed the path
NeverModified(path) == \A c \in Reachable : ~Touches(c, path)

C13_Original ==
    LookupFails(repo) => gresult # "commits_for_file"

\* C13 amended: a failure of the history lookup for a blog file fails the
\* build with that error: no entry is collected for the file, however its
\* document reads, and no file after it is handled
C13_LookupFailureFailsBuild ==
    LookupFails(repo) =>
        /\ all_blog = << >>
        /\ \A i \in EntryFiles :
               /\ ~(i < pos)
               /\ i = pos /\ gpc \notin {"start", "scan"} =>
                      /\ gresult = "commits_for_file"
                      /\ gpc = "done"
        /\ gresult = "Ok" => EntryFiles = {}

C13_Witness ==
    /\ LookupFails(repo)
    /\ gresult = "commits_for_file"
    /\ pos > 1
    /\ pos < Len(scan)

\* the entries are being aggregated or have been
Sorted == gpc \in {"tags", "rss"} \/ gresult = "Ok"

\* the position in the scan of the file of an entry
ScanPos(e) == CHOOSE i \in 1..Len(scan) : scan[i].path = e.rel_md_path

\* a date as one number
DayNumber(date) == date[1] * 10000 + date[2] * 100 + date[3]

\* the paths of the files of the entries, in their order
EntryPaths == [k \in 1..Len(all_blog) |-> all_blog[k].rel_md_path]

\* the paths of the first three files of the scan
FirstThree == IF Len(scan) < 3 THEN << >> ELSE <<scan[1].path, scan[2].path, scan[3].path>>

\* C14: once sorted, the entries stand newest publish date first, entries of
\* one date in the order of their collection; c of 2024-01-02, a and b of
\* 2024-01-05 collected in this order come out as a, b, c
C14_StableNewestFirst ==
    Sorted =>
        /\ {EntryPaths[k] : k \in 1..Len(all_blog)}
               = {scan[i].path : i \in EntryFiles}
        /\ Len(all_blog) = Cardinality(EntryFiles)
        /\ \A k, l \in 1..Len(all_blog) :
               k < l =>
                   \/ DayNumber(all_blog[k].time) > DayNumber(all_blog[l].time)
                   \/ /\ DayNumber(all_blog[k].time) = DayNumber(all_blog[l].time)
                      /\ ScanPos(all_blog[k]) < ScanPos(all_blog[l])
        /\ FirstThree = <<p_post_c, p_post_a, p_post_b>>
               => EntryPaths = <<p_post_a, p_post_b, p_post_c>>

C14_Witness ==
    /\ gresult = "Ok"
    /\ FirstThree = <<p_post_c, p_post_a, p_post_b>>
    /\ EntryPaths = <<p_post_a, p_post_b, p_post_c>>

\* the tag homes have been built
Tagged == gpc = "rss" \/ gresult = "Ok"

\* the tags of an entry
TagsOf(e) == {e.tags[j] : j \in 1..Len(e.tags)}

\* the position among the sorted entries of an entry of a bucket
EntryPos(b) == CHOOSE k \in 1..Len(all_blog) : all_blog[k].rel_path = b.rel_path

\* C15: the tag index has a bucket for just the tags some entry carries; the
\* bucket of a tag holds just the entries that carry the tag, in the order of
\* the sorted entries (an entry once for every time it names the tag)
C15_TagIndex ==
    Tagged =>
        /\ DOMAIN tag_blog_list = UNION {TagsOf(all_blog[k]) : k \in 1..Len(all_blog)}
        /\ \A t \in DOMAIN tag_blog_list :
               LET bucket == tag_blog_list[t] IN
               /\ bucket # << >>
               /\ {bucket[j].rel_path : j \in 1..Len(bucket)}
                      = {all_blog[k].rel_path :
                            k \in {l \in 1..Len(all_blog) : t \in TagsOf(all_blog[l])}}
               /\ \A j \in 1..Len(bucket) :
                      /\ bucket[j].publish_time = all_blog[EntryPos(bucket[j])].time
                      /\ bucket[j].tags = all_blog[EntryPos(bucket[j])].tags
               /\ \A i, j \in 1..Len(bucket) :
                      i < j => EntryPos(bucket[i]) <= EntryPos(bucket[j])
               /\ \A k \in 1..Len(all_blog) :
                      Cardinality({j \in 1..Len(bucket) : EntryPos(bucket[j]) = k})
                          = Cardinality({j \in 1..Len(all_blog[k].tags) :
                                            all_blog[k].tags[j] = t})

C15_Witness ==
    /\ gresult = "Ok"
    /\ EntryPaths = <<p_post_a, p_post_b, p_post_c>>
    /\ DOMAIN tag_blog_list = {tag_a, tag_b}
    /\ Len(tag_blog_list[tag_a]) = 2
    /\ tag_blog_list[tag_a][1].rel_path = SetExtensionEmpty(p_post_a)
    /\ tag_blog_list[tag_a][2].rel_path = SetExtensionEmpty(p_post_c)

\* some entry has a last commit
SomeHistory == \E k \in 1..Len(all_blog) : all_blog[k].last_commit.some

\* C16: when no entry has a last commit, build_rss writes no feed and the
\* build ends in success; blog/rss.xml is written just when some entry has a
\* last commit
C16_FeedSkipped ==
    /\ gpc = "done" /\ BLOG_INDEX_HTML \in written => gresult = "Ok"
    /\ gresult = "Ok" =>
           /\ RSS_XML \in written <=> SomeHistory
           /\ feed.written <=> SomeHistory
    /\ gresult # "Ok" => RSS_XML \notin written /\ ~feed.written

C16_Witness ==
    /\ gresult = "Ok"
    /\ Len(all_blog) >= 2
    /\ ~SomeHistory
    /\ RSS_XML \notin written

\* the times of the reachable commits that changed the file of an entry
ChangeTimes(e) ==
    {repo.commits[c].time : c \in {d \in Reachable : Touches(d, e.rel_md_path)}}

\* the latest of some times
Latest(times) == CHOOSE t \in times : \A u \in times : u <= t

\* C17: the publish date and the last-build date of a written feed are both
\* the latest, over the entries with history, of the time of the latest
\* commit that changed the entry's file
C17_FeedLastUpdated ==
    feed.written =>
        LET with_history == {k \in 1..Len(all_blog) : ChangeTimes(all_blog[k]) # {}} IN
        /\ with_history # {}
        /\ \A k \in 1..Len(all_blog) :
               /\ all_blog[k].last_commit.some <=> k \in with_history
               /\ k \in with_history =>
                      all_blog[k].last_commit.time = Latest(ChangeTimes(all_blog[k]))
        /\ feed.pub_date = Latest({Latest(ChangeTimes(all_blog[k])) : k \in with_history})
        /\ feed.last_build_date = feed.pub_date

C17_Witness ==
    /\ feed.written
    /\ Len(all_blog) = 3
    /\ all_blog[1].last_commit.time = 20
    /\ all_blog[2].last_commit.time = 30
    /\ feed.pub_date = 30

\* handling the file fails
FileFails(i) ==
    \/ ~scan[i].ok
    \/ i \in EntryFiles /\ LookupFails(repo)

\* what is written for a file
OutputOf(path) ==
    IF IsSuffix(DOT_MD, path)
    THEN SubSeq(path, 1, Len(path) - Len(DOT_MD)) \o SLASH_INDEX_HTML
    ELSE path

Aggregates == {BLOG_INDEX_HTML, RSS_XML, TagHomePath(tag_a), TagHomePath(tag_b)}

\* C18: the build fails at the first file whose handling fails: it ends with
\* the error there, no file after that one is handled, and neither the blog
\* index nor a tag page nor the feed is written
C18_FailFast ==
    /\ \A i \in 1..Len(scan) :
           i < pos => scan[i].path \in Skip \/ ~FileFails(i)
    /\ BuildFailed =>
           /\ gpc = "done"
           /\ written \cap Aggregates = {}
           /\ tag_blog_list = [t \in {} |-> << >>]
           /\ ~feed.written
           /\ \A i \in 1..Len(scan) : i >= pos => OutputOf(scan[i].path) \notin written
    /\ BuildFailed /\ pos <= Len(scan) => FileFails(pos)

C18_Witness ==
    /\ gresult = "read_md"
    /\ pos > 1
    /\ pos + 2 < Len(scan)
    /\ \E i \in 1..(pos - 1) : OutputOf(scan[i].path) \in written

\* the last lookup of a history
LookedUp == scan[LastLookup].path

\* C20: the commits that commits_for_file returns for a path are the commits
\* reachable from the tip that differ at the path from their first parent (a
\* root commit: that hold the path), each once; a merge that differs at the
\* path from its second parent alone is not among them
C20_ChangedAgainstFirstParent ==
    ~LookupFails(repo) /\ LastLookup > 0 =>
        /\ {commits[k] : k \in 1..Len(commits)}
               = {c \in Reachable : Touches(c, LookedUp)}
        /\ Len(commits) = Cardinality({commits[k] : k \in 1..Len(commits)})
        /\ \A c \in Reachable :
               /\ Len(repo.commits[c].parents) = 2
               /\ ~DiffersFromParent(c, 1, LookedUp)
               => \A k \in 1..Len(commits) : commits[k] # c

C20_Witness ==
    /\ LastLookup > 0
    /\ commits # << >>
    /\ \E c \in Reachable :
           /\ Len(repo.commits[c].parents) = 2
           /\ ~DiffersFromParent(c, 1, LookedUp)
           /\ DiffersFromParent(c, 2, LookedUp)
           /\ \A k \in 1..Len(commits) : commits[k] # c

(***************************************************************************)
(* Claims about resolved paths                                             *)
(***************************************************************************)
\* the segments of a path that begins with a separator
SegmentsOf(path) ==
    LET segs == Split(Tail(path), SEP) IN {segs[j] : j \in 1..Len(segs)}

\* C19: a path that get_abs_path returns begins with one separator, not two,
\* and none of its segments is "." or ".."
C19_CanonicalResult ==
    \A i \in Visited :
        resolved[i] # NONE =>
            /\ Len(resolved[i]) >= 1
            /\ resolved[i][1] = SEP
            /\ Len(resolved[i]) >= 2 => resolved[i][2] # SEP
            /\ CUR \notin SegmentsOf(resolved[i])
            /\ PARENT \notin SegmentsOf(resolved[i])

C19_Witness ==
    /\ file_path = doc_foo_bar
    /\ \E i \in Visited :
           src.nodes[i].url = l_cur_images /\ resolved[i] = u_foo_images


(***************************************************************************)
(* Claims about the order of a history                                     *)
(***************************************************************************)
\* the time of a commit
TimeOf(c) == repo.commits[c].time

\* C21: the commits that commits_for_file returns stand latest commit time
\* first; the first of them, which the entry takes as its last commit, has
\* the greatest commit time of all reachable commits that changed the file
C21_NewestFirst ==
    ~LookupFails(repo) /\ LastLookup > 0 =>
        /\ \A k, l \in 1..Len(commits) :
               k < l => TimeOf(commits[k]) >= TimeOf(commits[l])
        /\ \A c \in Reachable :
               Touches(c, LookedUp) =>
                   commits # << >> /\ TimeOf(c) <= TimeOf(commits[1])
        /\ \A k \in EntriesOf(LookedUp) :
               IF commits = << >> THEN ~all_blog[k].last_commit.some
               ELSE /\ all_blog[k].last_commit.some
                    /\ all_blog[k].last_commit.id = commits[1]
                    /\ all_blog[k].last_commit.time = TimeOf(commits[1])

C21_Witness ==
    /\ LastLookup > 0
    /\ Len(commits) >= 2
    /\ commits[1] # repo.head
    /\ \E k \in 2..Len(commits) : commits[k] = repo.head
    /\ TimeOf(commits[1]) > TimeOf(repo.head)
    /\ \E k \in EntriesOf(LookedUp) : all_blog[k].last_commit.id = commits[1]


(***************************************************************************)
(* Claims about external targets and about the metadata                    *)
(***************************************************************************)
\* C22: a target that parses as a URL (https://example.com/a.md,
\* mailto:me@x.y, also c:a.md) is left as written and not resolved as a path,
\* in links and in images; every other target (also http://, which has a
\* scheme and does not parse) is resolved as a path; nodes the walk has not
\* come to are as written
C22_ExternalUntouched ==
    /\ \A i \in 1..Len(resolved) :
           LET url == src.nodes[i].url IN
           /\ is_url(url) => resolved[i] = EXTERNAL /\ nodes[i].url = url
           /\ ~is_url(url) => resolved[i] # EXTERNAL
           /\ url \in {l_https, l_mailto, l_drive} =>
                  resolved[i] = EXTERNAL /\ nodes[i].url = url
           /\ url = l_http_nohost => resolved[i] # EXTERNAL
    /\ \A i \in 1..Len(nodes) :
           i > Len(resolved) => nodes[i].url = src.nodes[i].url

C22_Witness ==
    /\ result = "Ok"
    /\ \E i \in 1..Len(resolved) :
           /\ src.nodes[i].kind = "Image"
           /\ src.nodes[i].url = l_mailto
           /\ nodes[i].url = l_mailto
           /\ resolved[i] = EXTERNAL


\* the document has a metadata block that does not deserialize
Malformed == src.fm.present /\ ~src.fm.valid

\* the document was read and all its links and images were patched
LinksPatched ==
    /\ src.readable /\ (blog => entry.ok)
    /\ pc \notin {"blog_entry_new", "builder_new", "links"}
    /\ idx > Len(nodes)

\* C23: a document with a metadata block that does not deserialize never
\* builds: past the links the build ends in "failed to parse yaml
\* frontmatter", and no title, description or tags are taken from the heading,
\* the paragraph or the block.  A document without a block gets the default
\* metadata (no title, no description, no tags) without an error from the
\* metadata, and then builds from its heading and paragraph
C23_MalformedMetadataFails ==
    /\ Malformed =>
           /\ result # "Ok"
           /\ pc \notin {"title", "description"}
           /\ title = NONE /\ description = NONE
           /\ frontmatter = DefaultFrontmatter
    /\ result = "failed to parse yaml frontmatter" <=>
           pc = "done" /\ LinksPatched /\ Malformed
    /\ ~src.fm.present /\ LinksPatched =>
           /\ frontmatter = DefaultFrontmatter
           /\ result \in {"pending", "Ok", "title not found"}
           /\ src.h1 # NONE /\ pc = "done" => result = "Ok"
    /\ ~src.fm.present /\ result = "Ok" =>
           /\ title = src.h1
           /\ description =
                  IF src.para = NONE THEN NONE ELSE FormatParagraph(src.para)

C23_Witness ==
    /\ Malformed /\ src.h1 # NONE /\ src.para # NONE
    /\ pc = "done" /\ LinksPatched
    /\ result = "failed to parse yaml frontmatter"
    /\ title = NONE /\ description = NONE


\* the document has a description in its metadata
HasMetadataDescription ==
    src.fm.present /\ src.fm.valid /\ src.fm.description # NONE

\* C24: in a finished build the description is the one of the metadata when
\* there is one, else the first paragraph as comrak formats it, else there is
\* none; once the title is found the build succeeds whether or not there is a
\* description
C24_DescriptionOptional ==
    /\ result = "Ok" =>
           description =
               IF HasMetadataDescription THEN src.fm.description
               ELSE IF src.para # NONE THEN FormatParagraph(src.para)
               ELSE NONE
    /\ pc = "done" /\ LinksPatched /\ title # NONE => result = "Ok"
    /\ pc = "description" => title # NONE /\ result = "pending"

C24_Witness ==
    /\ result = "Ok"
    /\ ~HasMetadataDescription /\ src.para = NONE
    /\ description = NONE
    /\ title # NONE


(***************************************************************************)
(* Claims about the feed items and the public paths                        *)
(***************************************************************************)
\* "https://example.com/blog/2024-01-05-a"
u_feed_post_a ==
    <<"h", "t", "t", "p", "s", ":", "/", "/", "e", "x", "a", "m", "p", "l", "e", ".", "c", "o", "m", "/", "b", "l", "o", "g", "/", "2", "0", "2", "4", "-", "0", "1", "-", "0", "5", "-", "a">>

\* the link of the feed item of the entry of a source file
ItemLink(rel_md_path) == site_url \o <<"/">> \o SetExtensionEmpty(rel_md_path)

\* C25: a written feed has one item for every blog entry, with or without
\* history, in the order of the sorted entries, no item dated before a later
\* one; link and guid of an item are one string, the site URL, a slash and
\* the path of the entry without its extension
\* (https://example.com/blog/2024-01-05-a for blog/2024-01-05-a.md)
C25_FeedItems ==
    feed.written =>
        /\ Len(feed.items) = Len(all_blog)
        /\ \A i \in 1..Len(feed.items) :
               /\ feed.items[i].link = ItemLink(all_blog[i].rel_md_path)
               /\ feed.items[i].guid = feed.items[i].link
               /\ feed.items[i].pub_date = all_blog[i].time
               /\ all_blog[i].rel_md_path = p_post_a
                      => feed.items[i].link = u_feed_post_a
        /\ \A i, j \in 1..Len(feed.items) :
               i < j => ~DateBefore(feed.items[i].pub_date, feed.items[j].pub_date)
        /\ \A f \in EntryFiles :
               Cardinality({i \in 1..Len(feed.items) :
                               feed.items[i].link = ItemLink(scan[f].path)}) = 1

C25_Witness ==
    /\ feed.written
    /\ Len(feed.items) >= 2
    /\ \E i \in 1..Len(feed.items) :
           ~all_blog[i].last_commit.some /\ feed.items[i].guid # u_feed_post_a
    /\ \E i \in 1..Len(feed.items) :
           all_blog[i].last_commit.some /\ feed.items[i].guid = u_feed_post_a


\* what patch_link makes of a link in home.md to the source file of an entry
CrossLink(e) == patch_link(HOME_MD, e.rel_md_path)

\* C26: the URL a cross-link to the source file of a collected blog entry is
\* rewritten to is the root-relative public path of the entry: the page of the
\* entry is written at that path, and the feed item of the entry links to the
\* site URL followed by it
C26_CrossLinkIsPublicPath ==
    \A k \in 1..Len(all_blog) :
        LET e == all_blog[k]
            link == CrossLink(e) IN
        /\ link.ok
        /\ link.url = ROOT \o e.rel_path
        /\ md_to_html_path(Tail(link.url)) \in written
        /\ feed.written /\ Len(feed.items) = Len(all_blog)
               => feed.items[k].link = site_url \o link.url


(***************************************************************************)
(* The order of the scan                                                   *)
(***************************************************************************)
\* the orders in which n collected entries can have been come to
Orders(n) ==
    {f \in [1..n -> 1..n] : \A i, j \in 1..n : f[i] = f[j] => i = j}

Permuted(list, f) == [i \in 1..Len(list) |-> list[f[i]]]

\* path and publish date of the entries of a list, of the pages of a bucket
EntryKeys(list) ==
    [i \in 1..Len(list) |-> [path |-> list[i].rel_path, time |-> list[i].time]]
PageKeys(bucket) ==
    [i \in 1..Len(bucket) |->
        [path |-> bucket[i].rel_path, time |-> bucket[i].publish_time]]

\* two lists of keys hold the same entries, and any two entries of different
\* dates stand in the same order in both
SameUpToEqualDates(a, b) ==
    /\ Len(a) = Len(b)
    /\ {a[i] : i \in 1..Len(a)} = {b[i] : i \in 1..Len(b)}
    /\ \A i, j \in 1..Len(a) :
           i < j /\ a[i].time # a[j].time =>
               \E k, l \in 1..Len(b) : k < l /\ b[k] = a[i] /\ b[l] = a[j]

\* the sorted list of a build that collected the same entries in the order f
SortedInOrder(f) == SortByReverseTime(Permuted(all_blog, f))

\* C27: a build that comes to the files in any other order has, after the
\* sort, the same entries, any two entries of different publish dates in the
\* same order, and likewise in every tag bucket; the order of entries of one
\* date is the only thing that can differ
C27_ScanOrderIndependent ==
    /\ Sorted =>
           \A f \in Orders(Len(all_blog)) :
               SameUpToEqualDates(EntryKeys(all_blog), EntryKeys(SortedInOrder(f)))
    /\ Tagged =>
           \A f \in Orders(Len(all_blog)) :
               LET other == process_tag_blog_list(AsPages(SortedInOrder(f))) IN
               /\ DOMAIN other = DOMAIN tag_blog_list
               /\ \A t \in DOMAIN tag_blog_list :
                      SameUpToEqualDates(PageKeys(tag_blog_list[t]), PageKeys(other[t]))

C27_Witness ==
    /\ Tagged
    /\ Len(all_blog) = 3
    /\ \E k, l \in 1..3 : all_blog[k].time # all_blog[l].time
    /\ \E f \in Orders(3) : SortedInOrder(f) # all_blog
    /\ \E t \in DOMAIN tag_blog_list : Len(tag_blog_list[t]) >= 2


(***************************************************************************)
(* main.rs fetch_and_build: the initial build, then the loop that fetches   *)
(* and rebuilds.  Every call of GitRepo can fail (the network, the disk),   *)
(* and build_once can fail or succeed at every commit.                      *)
(***************************************************************************)
\* how often the remote moves while the loop is watched
MaxPushes == 2

\* the commits the remote can stand at
RemoteCommits == 1..(MaxPushes + 1)

\* the messages of the expect calls of fetch_and_build
OPEN_FAILED == "cannot open the git repo"
START_FAILED == "failed to build the site at the start"
CURRENT_COMMIT_FAILED == "failed to get current commit"
FETCH_FAILED == "failed to fetch the commit"
CURRENT_REF_FAILED == "failed to get current ref"
FAST_FORWARD_FAILED == "failed to fast forward"

\* the source directory holds a clone at any commit, or nothing yet
LoopInit ==
    /\ lpc = "open"
    /\ local_ref \in {0} \cup RemoteCommits
    /\ fetch_head \in RemoteCommits
    /\ cur_commit = 0
    /\ fet_commit = 0
    /\ builds = << >>
    /\ pushes = 0
    /\ panic = ""
    /\ DocIdle
    /\ GenIdle
    /\ LibIdle

\* expect on an Err
Panic(msg) == lpc' = "panicked" /\ panic' = msg

\* one call of build_once on the checked-out commit
BuildOnce(ok) == builds' = Append(builds, [commit |-> local_ref, ok |-> ok])

\* GitRepo::new: the repository is opened, or cloned when there is none
GitRepoNew ==
    /\ lpc = "open"
    /\ \E ok \in BOOLEAN :
           IF ok
           THEN /\ local_ref' = IF local_ref = 0 THEN fetch_head ELSE local_ref
                /\ lpc' = "start"
                /\ panic' = panic
           ELSE Panic(OPEN_FAILED) /\ local_ref' = local_ref
    /\ UNCHANGED <<fetch_head, cur_commit, fet_commit, builds, pushes>>
    /\ UNCHANGED <<docvars, genvars, libvars>>

\* the build at the start
InitialBuild ==
    /\ lpc = "start"
    /\ \E ok \in BOOLEAN :
           /\ BuildOnce(ok)
           /\ IF ok THEN lpc' = "sleep" /\ panic' = panic
              ELSE Panic(START_FAILED)
    /\ UNCHANGED <<local_ref, fetch_head, cur_commit, fet_commit, pushes>>
    /\ UNCHANGED <<docvars, genvars, libvars>>

\* the sleep, then current_commit
CurrentCommit ==
    /\ lpc = "sleep"
    /\ \E ok \in BOOLEAN :
           IF ok
           THEN cur_commit' = local_ref /\ lpc' = "fetch" /\ panic' = panic
           ELSE Panic(CURRENT_COMMIT_FAILED) /\ cur_commit' = cur_commit
    /\ UNCHANGED <<local_ref, fetch_head, fet_commit, builds, pushes>>
    /\ UNCHANGED <<docvars, genvars, libvars>>

\* GitRepo::fetch
Fetch ==
    /\ lpc = "fetch"
    /\ \E ok \in BOOLEAN :
           IF ok
           THEN fet_commit' = fetch_head /\ lpc' = "compare" /\ panic' = panic
           ELSE Panic(FETCH_FAILED) /\ fet_commit' = fet_commit
    /\ UNCHANGED <<local_ref, fetch_head, cur_commit, builds, pushes>>
    /\ UNCHANGED <<docvars, genvars, libvars>>

\* the ids are equal: "nothing new", continue
NothingNew ==
    /\ lpc = "compare"
    /\ cur_commit = fet_commit
    /\ lpc' = "sleep"
    /\ UNCHANGED <<local_ref, fetch_head, cur_commit, fet_commit, builds,
                   pushes, panic>>
    /\ UNCHANGED <<docvars, genvars, libvars>>

\* as FastForward, whatever was fetched
FastForwardAlways ==
    /\ lpc = "compare"
    /\ \E res \in {"ok", "no_ref", "no_target", "no_checkout"} :
           CASE res = "ok" ->
                    /\ local_ref' = fet_commit
                    /\ lpc' = "rebuild"
                    /\ panic' = panic
             [] res = "no_ref" ->
                    Panic(CURRENT_REF_FAILED) /\ local_ref' = local_ref
             [] res = "no_target" ->
                    Panic(FAST_FORWARD_FAILED) /\ local_ref' = local_ref
             [] res = "no_checkout" ->
                    Panic(FAST_FORWARD_FAILED) /\ local_ref' = fet_commit
    /\ UNCHANGED <<fetch_head, cur_commit, fet_commit, builds, pushes>>
    /\ UNCHANGED <<docvars, genvars, libvars>>

\* the ids differ: current_ref, then fast_forward (set_target, set_head,
\* checkout_head)
FastForward ==
    /\ lpc = "compare"
    /\ cur_commit # fet_commit
    /\ \E res \in {"ok", "no_ref", "no_target", "no_checkout"} :
           CASE res = "ok" ->
                    /\ local_ref' = fet_commit
                    /\ lpc' = "rebuild"
                    /\ panic' = panic
             [] res = "no_ref" ->
                    Panic(CURRENT_REF_FAILED) /\ local_ref' = local_ref
             [] res = "no_target" ->
                    Panic(FAST_FORWARD_FAILED) /\ local_ref' = local_ref
             [] res = "no_checkout" ->
                    Panic(FAST_FORWARD_FAILED) /\ local_ref' = fet_commit
    /\ UNCHANGED <<fetch_head, cur_commit, fet_commit, builds, pushes>>
    /\ UNCHANGED <<docvars, genvars, libvars>>

\* as Rebuild, a failure ending the process as at the start
RebuildOrPanic ==
    /\ lpc = "rebuild"
    /\ \E ok \in BOOLEAN :
           /\ BuildOnce(ok)
           /\ IF ok THEN lpc' = "sleep" /\ panic' = panic
              ELSE Panic(START_FAILED)
    /\ UNCHANGED <<local_ref, fetch_head, cur_commit, fet_commit, pushes>>
    /\ UNCHANGED <<docvars, genvars, libvars>>

\* the rebuild: an error is printed, and the loop goes on
Rebuild ==
    /\ lpc = "rebuild"
    /\ \E ok \in BOOLEAN : BuildOnce(ok)
    /\ lpc' = "sleep"
    /\ UNCHANGED <<local_ref, fetch_head, cur_commit, fet_commit, pushes, panic>>
    /\ UNCHANGED <<docvars, genvars, libvars>>

\* somebody pushes to the remote: the next fetch finds another commit
RemotePush ==
    /\ lpc # "panicked"
    /\ pushes < MaxPushes
    /\ fetch_head' \in RemoteCommits \ {fetch_head}
    /\ pushes' = pushes + 1
    /\ UNCHANGED <<lpc, local_ref, cur_commit, fet_commit, builds, panic>>
    /\ UNCHANGED <<docvars, genvars, libvars>>

LoopNext ==
    \/ GitRepoNew
    \/ InitialBuild
    \/ CurrentCommit
    \/ Fetch
    \/ NothingNew
    \/ FastForward
    \/ Rebuild
    \/ RemotePush

LoopSpec == LoopInit /\ [][LoopNext]_vars

\* the build_once calls after the one at the start
Rebuilds == 2..Len(builds)

\* C28: after the build at the start, build_once is called only in an
\* iteration whose fetched id differs from the id read from the ref, and by
\* then the ref is at the fetched commit, which is the commit built; the ref
\* moves only in such an iteration and only to the fetched commit; an
\* iteration with equal ids goes back to sleep with the ref and the builds
\* as they were
C28_RebuildOnlyOnNewCommit ==
    [][/\ Len(builds') > Len(builds) /\ Len(builds) >= 1 =>
              /\ cur_commit # fet_commit
              /\ local_ref = fet_commit /\ local_ref' = local_ref
              /\ builds'[Len(builds')].commit = fet_commit
       /\ local_ref' # local_ref /\ lpc # "open" =>
              cur_commit # fet_commit /\ local_ref' = fet_commit
       /\ lpc' = "rebuild" /\ lpc # "rebuild" =>
              cur_commit # fet_commit /\ local_ref' = fet_commit
       /\ lpc = "compare" /\ cur_commit = fet_commit /\ lpc' # lpc =>
              lpc' = "sleep" /\ local_ref' = local_ref /\ builds' = builds
      ]_vars

\* a rebuild was made, and a later iteration found nothing new
C28_Witness ==
    /\ Len(builds) = 2
    /\ lpc = "sleep"
    /\ cur_commit = fet_commit
    /\ local_ref = builds[2].commit
    /\ builds[1].commit # builds[2].commit

\* C29: the process ends with "failed to build the site at the start" just
\* when the build at the start failed, and then nothing more is built; a
\* failed rebuild ends nothing: the process runs on unless a call of GitRepo
\* fails, the ref stays at the commit of the failed rebuild while the loop
\* polls, and the next call of build_once is for another commit
C29_OnlyInitialFailureEnds ==
    /\ panic = START_FAILED <=> Len(builds) >= 1 /\ ~builds[1].ok
    /\ Len(builds) >= 1 /\ ~builds[1].ok => Len(builds) = 1 /\ lpc = "panicked"
    /\ lpc = "panicked" <=> panic # ""
    /\ panic \in {"", OPEN_FAILED, START_FAILED, CURRENT_COMMIT_FAILED,
                  FETCH_FAILED, CURRENT_REF_FAILED, FAST_FORWARD_FAILED}
    /\ Len(builds) >= 1 /\ lpc \in {"sleep", "fetch", "compare"} =>
           local_ref = builds[Len(builds)].commit
    /\ \A i \in Rebuilds : builds[i - 1].commit # builds[i].commit
    /\ Len(builds) <= pushes + 2

\* a rebuild failed, and a later commit was built
C29_Witness ==
    /\ Len(builds) = 3
    /\ builds[1].ok /\ ~builds[2].ok /\ builds[3].ok
    /\ lpc = "sleep"
    /\ panic = ""


(***************************************************************************)
(* lib.rs build: Generator::new, then Generator::build, called again and   *)
(* again on one source directory and one destination                       *)
(***************************************************************************)
\* how often build is called
MaxRuns == 3

\* sites that build, with history, without and without entries, one that
\* fails at its special pages, one whose repository cannot be read
LibInputs ==
    {GenInput(<<f_post_a, File(p_about, TRUE, << >>), File(p_logo, TRUE, << >>),
                File(README_MD, FALSE, << >>), f_home, f_not_found>>, repo_history),
     GenInput(<<File(p_post_c, TRUE, <<tag_a>>), f_post_a, f_home, f_not_found>>,
              repo_new),
     GenInput(<<f_home, f_not_found>>, repo_history),
     GenInput(<<f_home>>, repo_history),
     GenInput(<<f_post_a, f_home, f_not_found>>, repo_corrupt)}

\* what a destination that exists before the first call can hold
OldOutputs == {{}, {INDEX_HTML}}

LibInit ==
    \E in \in LibInputs :
        /\ scan = in.scan
        /\ repo = in.repo
        /\ pos = 1
        /\ all_blog = << >>
        /\ commits = << >>
        /\ dst_exists \in BOOLEAN
        /\ written \in (IF dst_exists THEN OldOutputs ELSE {{}})
        /\ tag_blog_list = [t \in {} |-> << >>]
        /\ feed = NoFeed
        /\ gpc = "new"
        /\ gresult = "pending"
        /\ runs = 1
        /\ removed = 0
        /\ DocIdle
        /\ LoopIdle

\* as GeneratorNew, a destination that exists being built into
GeneratorNewOverwrite ==
    /\ gpc = "new"
    /\ \E ok \in BOOLEAN :
           IF ok THEN gpc' = "start" /\ gresult' = gresult
           ELSE GenFail("Generator::new")
    /\ UNCHANGED <<scan, repo, pos, all_blog, commits, written, tag_blog_list,
                   feed>>
    /\ UNCHANGED <<docvars, libvars, loopvars>>

\* Generator::new: the destination must not exist; then the repository is
\* opened and config.yaml is read, which can fail
GeneratorNew ==
    /\ gpc = "new"
    /\ IF dst_exists THEN GenFail("output dir is not empty")
       ELSE \E ok \in BOOLEAN :
                IF ok THEN gpc' = "start" /\ gresult' = gresult
                ELSE GenFail("Generator::new")
    /\ UNCHANGED <<scan, repo, pos, all_blog, commits, written, tag_blog_list,
                   feed>>
    /\ UNCHANGED <<docvars, libvars, loopvars>>

\* build is called once more: a new Generator on the same directories
BuildAgain ==
    /\ gpc = "done"
    /\ runs < MaxRuns
    /\ runs' = runs + 1
    /\ pos' = 1
    /\ all_blog' = << >>
    /\ commits' = << >>
    /\ tag_blog_list' = [t \in {} |-> << >>]
    /\ gpc' = "new"
    /\ gresult' = "pending"
    /\ UNCHANGED <<scan, repo, written, feed, dst_exists, removed>>
    /\ UNCHANGED <<docvars, loopvars>>

\* the destination is removed between two calls
RemoveDst ==
    /\ gpc = "new"
    /\ dst_exists
    /\ dst_exists' = FALSE
    /\ written' = {}
    /\ feed' = NoFeed
    /\ removed' = removed + 1
    /\ UNCHANGED <<scan, repo, pos, all_blog, commits, tag_blog_list, gpc,
                   gresult, runs>>
    /\ UNCHANGED <<docvars, loopvars>>

LibNext ==
    \/ GeneratorNew
    \/ GenNext
    \/ BuildAgain
    \/ RemoveDst

LibSpec == LibInit /\ [][LibNext]_vars

\* C30: with the destination in existence Generator::new ends in "output dir
\* is not empty" and leaves the destination as it is; build starts only with
\* no destination and makes it at once, and only its removal unmakes it: a
\* call after a call that got to build fails until the destination is removed
C30_ExistingDestinationRejected ==
    [][/\ gpc = "new" /\ dst_exists /\ gpc' # gpc =>
              /\ gpc' = "done"
              /\ gresult' = "output dir is not empty"
              /\ written' = written /\ feed' = feed /\ dst_exists'
       /\ gpc = "new" /\ gpc' = "start" => ~dst_exists
       /\ gpc = "start" /\ gpc' # gpc => dst_exists'
       /\ gpc \notin {"new", "start"} => dst_exists \/ gresult = "Generator::new"
       /\ dst_exists /\ ~dst_exists' =>
              gpc = "new" /\ gpc' = "new" /\ removed' = removed + 1
       /\ written' # written /\ dst_exists' => gresult' # "output dir is not empty"
      ]_vars

\* the second call has failed on the output of the first
C30_Witness ==
    /\ runs = 2
    /\ gpc = "done"
    /\ gresult = "output dir is not empty"
    /\ BLOG_INDEX_HTML \in written
    /\ feed.written

=============================================================================
